---------------------------- MODULE Spec2Model ----------------------------
(***************************************************************************)
(* A model of the ras AirPlay-1 (RAOP) receiver.                           *)
(*                                                                         *)
(* The repository holds two implementations of the per-connection session: *)
(*   - RtspSession (src/src/rtsp_session.rs): one task, a select loop over *)
(*     the RTSP stream and three UDP sockets bound when the session starts; *)
(*   - RaopSession (src/src/raop_session.rs, the one main.rs spawns): an   *)
(*     RTSP loop, and a detached RTP task spawned by every successful      *)
(*     SETUP with sockets bound by that SETUP.                             *)
(* The variable impl says which of the two the modelled session runs.      *)
(*                                                                         *)
(* Spec       one session, its RTSP stream, its datagrams and its sink     *)
(* SpecStream the same, with a client that sends only ANNOUNCE and SETUP   *)
(* SpecControl the same, with every method and no datagram                 *)
(* SpecServe  the listener of main.rs (serve)                              *)
(* SpecMdns   the mDNS responder (src/src/mdns/server.rs)                  *)
(* SpecMdnsServer  the responder of src/src/mdns/mod.rs (MdnsServer)       *)
(* SpecSelect one session's tasks step by step, from await to await        *)
(* SpecRtspCodec  the RTSP decoder on a byte stream (src/src/rtsp/mod.rs)  *)
(* SpecRtpCodec   the RTP decoder on single datagrams (src/src/rtp.rs)     *)
(* SpecCipher     the packet cipher on two packets (src/src/cipher.rs)     *)
(* SpecPacket     the mDNS packet encoder and parser on bytes              *)
(*                (src/src/mdns/packet.rs)                                 *)
(***************************************************************************)
EXTENDS Integers, Sequences, FiniteSets, TLC

(***************************************************************************)
(* Bounds of the model.                                                    *)
(***************************************************************************)
\* RTSP frames the client sends on one connection
MaxRequests == 2
\* datagrams that reach the session's UDP sockets
MaxPackets == 2
\* connection attempts the listener sees
MaxConnections == 4
\* RTSP frames sent by the client that only sets streams up
MaxStreamRequests == 3
\* requests and RTP datagrams a session takes, step by step
MaxEvents == 4

VARIABLES
    impl,           \* "RtspSession" or "RaopSession"
    id,             \* Session.id, given by the listener
    status,         \* the session task: "spawned", "running", "returned_ok",
                    \* "returned_err", "panicked"
    stream_info,    \* self.stream_info : Option<StreamInfo>
    ports,          \* RtspSession: <<rtp_port, control_port, timing_port>>
    udp_open,       \* the three UDP sockets RtspSession owns are bound
    sink_sessions,  \* every AudioSinkSession the shared sink has started
    rtp_tasks,      \* the tasks RaopSession::handle_setup has spawned
    n_bound,        \* UDP sockets bound so far (gives the ephemeral ports)
    n_arrived,      \* RTSP frames the client has written to the stream
    n_read,         \* RTSP frames the loop has taken from the stream
    tcp_eof,        \* the client has closed its side of the stream
    tcp_out,        \* number of responses written to the stream
    last_req,       \* the request the loop handled last
    last_res,       \* what came of it: the response sent, or none
    announced,      \* history: some ANNOUNCE has succeeded on this session
    n_announced,    \* history: the number of ANNOUNCEs that have succeeded
    n_datagrams,    \* datagrams taken from the UDP sockets so far
    last_dgram,     \* history: the datagram handled last and its outcome
    listener,       \* serve: "running", "returned_err"
    next_id,        \* serve: the local variable id
    spawned,        \* serve: the handlers spawned, in spawn order: the id
                    \* each was given, its task and its session's StreamInfo
    n_accepts,      \* serve: items taken from the incoming stream
    mdns,           \* the mDNS task of main: "running", "returned_err"
    services,       \* mDNS: the services the Server was made with
    mdns_msg,       \* mDNS: the datagram of this turn of serve's loop
    mdns_out,       \* mDNS: what handle_packet made of it, what was sent
    sel,            \* the tasks of one session step by step: where the loop
                    \* and the RTP task are, and the StreamInfo each holds
    framed,         \* Framed<TcpStream, RtspCodec>: the bytes the client
                    \* sends, the read buffer and the requests decoded
    call            \* the latest call of a codec function on its own: the
                    \* function, its input and what it returned

sessionVars == <<impl, id, status, stream_info, ports, udp_open, sink_sessions,
                 rtp_tasks, n_bound, n_arrived, n_read, tcp_eof, tcp_out,
                 last_req, last_res, announced, n_announced, n_datagrams,
                 last_dgram>>
mdnsVars == <<mdns, services, mdns_msg, mdns_out>>
\* what main runs beside the session: the listener, the other handlers and
\* the mDNS responder
serveVars == <<listener, next_id, spawned, n_accepts, mdnsVars>>
\* what the specifications of single components have besides
otherVars == <<sel, framed, call>>
vars == <<sessionVars, serveVars, otherVars>>

(***************************************************************************)
(* Values.                                                                 *)
(***************************************************************************)
Impls == {"RtspSession", "RaopSession"}

NoHeader == "<absent>"
None == [kind |-> "None"]
Some(x) == [kind |-> "Some", v |-> x]

\* rtsp/response.rs: enum StatusCode
StatusOk == 200
StatusBadRequest == 400
StatusNotFound == 404
StatusMethodNotAllowed == 405
StatusInternalServerError == 500

\* The payload type handle_announce asks the SDP for
AnnouncePayloadType == 96

EmptyHeaders == [k \in {} |-> ""]
Insert(h, k, v) == [x \in (DOMAIN h) \cup {k} |-> IF x = k THEN v ELSE h[x]]
Has(h, k) == k \in DOMAIN h

\* RtspResponse::new / RtspResponse::with_headers
ResponseNew(code) == [status |-> code, headers |-> EmptyHeaders]
ResponseWithHeaders(code, h) == [status |-> code, headers |-> h]

PublicMethods ==
    "ANNOUNCE, SETUP, RECORD, PAUSE, FLUSH, TEARDOWN, OPTIONS, GET_PARAMETER, SET_PARAMETER, POST, GET"


(***************************************************************************)
(* Inputs: what a client can put on the RTSP stream.                       *)
(*                                                                         *)
(* A request is its method, its CSeq and Apple-Challenge headers (or       *)
(* NoHeader), its Transport header (None, or Some of the value as the code *)
(* splits it: a sequence of ';'-separated parts, each the sequence of its  *)
(* '='-separated tokens) and what handle_announce can find in its body.    *)
(***************************************************************************)
Methods == {"ANNOUNCE", "SETUP", "RECORD", "PAUSE", "FLUSH", "TEARDOWN",
            "OPTIONS", "GET_PARAMETER", "SET_PARAMETER", "POST", "GET",
            "DESCRIBE"}

\* What handle_announce finds in a body: whether it parses as SDP, its
\* number of media descriptions, the name of the codec of payload type 96
\* (NoHeader without such an rtpmap), whether the codec's parameters (the
\* fmtp of AppleLossless, the channels of L16) are usable, and the two
\* attributes: NoHeader, "good", "badb64" (not base64), "badrsa" (the key
\* does not decrypt), "badlen" (an IV that is not 16 bytes long).
NoBody == [parse |-> FALSE, medias |-> 0, codec |-> NoHeader,
           params_ok |-> FALSE, rsaaeskey |-> NoHeader, aesiv |-> NoHeader]
Sdp(codec, key, iv) ==
    [parse |-> TRUE, medias |-> 1, codec |-> codec, params_ok |-> TRUE,
     rsaaeskey |-> key, aesiv |-> iv]

SdpBodies ==
    { NoBody,
      Sdp("AppleLossless", NoHeader, NoHeader),
      Sdp("AppleLossless", "good", "good"),
      Sdp("AppleLossless", "good", NoHeader),
      Sdp("AppleLossless", "badb64", "good"),
      Sdp("AppleLossless", "good", "badlen"),
      [Sdp("AppleLossless", NoHeader, NoHeader) EXCEPT !.medias = 2],
      [Sdp("AppleLossless", NoHeader, NoHeader) EXCEPT !.params_ok = FALSE],
      [Sdp("L16", NoHeader, NoHeader) EXCEPT !.params_ok = FALSE],
      Sdp(NoHeader, NoHeader, NoHeader),
      Sdp("L16", NoHeader, NoHeader),
      Sdp("L16", NoHeader, "good"),
      Sdp("opus", NoHeader, NoHeader) }

\* "RTP/AVP/UDP;unicast;mode=record;control_port=6001;timing_port=6002" is
\* what AirPlay senders write; the other two have only key=value parts.
TransportStandard ==
    << <<"RTP/AVP/UDP">>, <<"unicast">>, <<"mode", "record">>,
       <<"control_port", "6001">>, <<"timing_port", "6002">> >>
TransportKeyValue ==
    << <<"mode", "record">>, <<"control_port", "6001">>,
       <<"timing_port", "6002">> >>
TransportNoPorts == << <<"mode", "record">> >>
Transports == {None, Some(TransportStandard), Some(TransportKeyValue),
               Some(TransportNoPorts)}

Challenges == {NoHeader, "valid", "not-base64"}

Request(m, cseq, ch, tr, body) ==
    [method |-> m, cseq |-> cseq, challenge |-> ch, transport |-> tr,
     sdp |-> body]

\* The requests the k-th frame of the stream can be. A client numbers its
\* requests, so its CSeq is the frame's number or is missing; the
\* Apple-Challenge comes with OPTIONS, a Transport with SETUP and a body
\* with ANNOUNCE.
CSeqsAt(k) == {NoHeader, ToString(k)}
ChallengesOf(m) == IF m = "OPTIONS" THEN Challenges ELSE {NoHeader}
TransportsOf(m) == IF m = "SETUP" THEN Transports ELSE {None}
BodiesOf(m) == IF m = "ANNOUNCE" THEN SdpBodies ELSE {NoBody}

NoRequest == [method |-> NoHeader]
\* What the loop reads when the stream has ended: next() yields None
EofRequest == [method |-> "<eof>"]
NoResponse == [status |-> 0]

(***************************************************************************)
(* The RTSP handlers. Each yields what the Rust function yields:           *)
(*   kind "Ok"    Ok(response)                                             *)
(*   kind "Err"   Err(_)                                                   *)
(*   kind "Panic" the function panicked (unwrap, index, panic!)            *)
(* together with the session fields and resources it left behind.          *)
(***************************************************************************)
Outcome(kind, res, si, opened, bound, task) ==
    [kind |-> kind, res |-> res, si |-> si, opened |-> opened,
     bound |-> bound, task |-> task, raised |-> FALSE]
OkWith(res) == Outcome("Ok", res, stream_info, None, 0, None)
Panicked == Outcome("Panic", NoResponse, stream_info, None, 0, None)

\* handle_options
handle_options(request) ==
    OkWith(ResponseWithHeaders(StatusOk,
                               Insert(EmptyHeaders, "Public", PublicMethods)))

\* The decoder handle_announce builds: kind "Fail" where the closure returns
\* None, kind "Panic" for the unknown codec.
AnnounceDecoder(sdp) ==
    IF ~sdp.parse THEN [kind |-> "Fail"]
    ELSE IF sdp.medias # 1 THEN [kind |-> "Fail"]
    ELSE IF sdp.codec = NoHeader THEN [kind |-> "Fail"]
    ELSE IF sdp.codec = "AppleLossless"
      THEN IF sdp.params_ok
             THEN [kind |-> "Decoder", codec |-> "AppleLossless",
                   format |-> "S16NE"]
             ELSE [kind |-> "Fail"]
    ELSE IF sdp.codec = "L16"
      THEN IF sdp.params_ok
             THEN [kind |-> "Decoder", codec |-> "L16", format |-> "S16BE"]
             ELSE [kind |-> "Fail"]
    ELSE [kind |-> "Panic"]

\* AnnounceCipher building a cipher from whichever attribute is there
AnnounceCipherFromEither(sdp) ==
    IF sdp.rsaaeskey # NoHeader \/ sdp.aesiv # NoHeader
      THEN [kind |-> "Cipher",
            v |-> Some([key |-> sdp.rsaaeskey, iv |-> sdp.aesiv])]
      ELSE [kind |-> "Cipher", v |-> None]
\* The cipher handle_announce builds: present only when both attributes are.
AnnounceCipher(sdp) ==
    IF sdp.rsaaeskey # NoHeader /\ sdp.aesiv # NoHeader
      THEN IF sdp.rsaaeskey = "badb64" THEN [kind |-> "Fail"]
           ELSE IF sdp.aesiv = "badb64" THEN [kind |-> "Fail"]
           ELSE IF sdp.rsaaeskey = "badrsa" THEN [kind |-> "Fail"]
           ELSE IF sdp.aesiv = "badlen" THEN [kind |-> "Panic"]
           ELSE [kind |-> "Cipher",
                 v |-> Some([key |-> sdp.rsaaeskey, iv |-> sdp.aesiv])]
      ELSE [kind |-> "Cipher", v |-> None]

\* handle_announce. RtspSession opens the sink session here (and unwraps
\* the result); RaopSession leaves that to the RTP task. The field
\* announce of the StreamInfo is history: which successful ANNOUNCE of the
\* session made it.
handle_announce_forgetting(request, sinkOk) ==
    LET decoder == AnnounceDecoder(request.sdp)
        cipher == AnnounceCipher(request.sdp)
        forgotten == Outcome("Ok", ResponseNew(StatusBadRequest), None,
                             None, 0, None)
    IN  IF decoder.kind = "Fail" THEN forgotten
        ELSE IF decoder.kind = "Panic" THEN Panicked
        ELSE IF cipher.kind = "Fail" THEN forgotten
        ELSE IF cipher.kind = "Panic" THEN Panicked
        ELSE IF impl = "RtspSession" /\ ~sinkOk THEN Panicked
        ELSE Outcome("Ok", ResponseNew(StatusOk),
                     Some([rtp_type |-> AnnouncePayloadType,
                           decoder |-> decoder, cipher |-> cipher.v,
                           announce |-> n_announced + 1,
                           session |-> IF impl = "RtspSession"
                                         THEN Len(sink_sessions) + 1
                                         ELSE 0]),
                     IF impl = "RtspSession" THEN Some(decoder.format)
                     ELSE None,
                     0, None)
handle_announce(request, sinkOk) ==
    LET decoder == AnnounceDecoder(request.sdp)
        cipher == AnnounceCipher(request.sdp)
    IN  IF decoder.kind = "Fail" THEN OkWith(ResponseNew(StatusBadRequest))
        ELSE IF decoder.kind = "Panic" THEN Panicked
        ELSE IF cipher.kind = "Fail" THEN OkWith(ResponseNew(StatusBadRequest))
        ELSE IF cipher.kind = "Panic" THEN Panicked
        ELSE IF impl = "RtspSession"
          THEN IF ~sinkOk THEN Panicked
               ELSE Outcome("Ok", ResponseNew(StatusOk),
                            Some([rtp_type |-> AnnouncePayloadType,
                                  decoder |-> decoder, cipher |-> cipher.v,
                                  announce |-> n_announced + 1,
                                  session |-> Len(sink_sessions) + 1]),
                            Some(decoder.format), 0, None)
          ELSE Outcome("Ok", ResponseNew(StatusOk),
                       Some([rtp_type |-> AnnouncePayloadType,
                             decoder |-> decoder, cipher |-> cipher.v,
                             announce |-> n_announced + 1,
                             session |-> 0]),
                       None, 0, None)

\* The value of the Transport header format! builds from three ports
ServerTransport(rtp, control, timing) ==
    [prefix |-> "RTP/AVP/UDP;unicast;mode=record", server_port |-> rtp,
     control_port |-> control, timing_port |-> timing]

\* The port the OS gives the n-th UDP socket this session binds
EphemeralPort(n) == n

\* transports: the HashMap handle_setup collects from the client's header
TransportKeys(parts) == {parts[i][1] : i \in DOMAIN parts}

\* SetupHeaders with the control and timing ports taking each other's place
SetupHeadersSwapped(rtp, control, timing) ==
    Insert(Insert(EmptyHeaders, "Session", ToString(id)),
           "Transport", ServerTransport(rtp, timing, control))
SetupHeaders(rtp, control, timing) ==
    Insert(Insert(EmptyHeaders, "Session", ToString(id)),
           "Transport", ServerTransport(rtp, control, timing))

\* RtspSession::handle_setup: the client's header is split and indexed, and
\* the reply names the ports bound by start.
RtspHandleSetup(request) ==
    IF request.transport.kind = "Some"
      THEN LET parts == request.transport.v IN
           IF \E i \in DOMAIN parts : Len(parts[i]) < 2 THEN Panicked
           ELSE IF "control_port" \notin TransportKeys(parts) THEN Panicked
           ELSE IF "timing_port" \notin TransportKeys(parts) THEN Panicked
           ELSE OkWith(ResponseWithHeaders(StatusOk,
                          SetupHeaders(ports[1], ports[2], ports[3])))
      ELSE OkWith(ResponseNew(StatusBadRequest))

\* RaopSession::handle_setup: binds three sockets, takes the StreamInfo and
\* spawns rtp_loop on the first socket with it.
RaopHandleSetup(request, bindOk) ==
    IF request.transport.kind = "Some"
      THEN IF ~bindOk
             THEN Outcome("Err", NoResponse, stream_info, None, 0, None)
           ELSE IF stream_info.kind = "None"
             THEN Outcome("Err", NoResponse, None, None, 3, None)
           ELSE Outcome("Ok",
                        ResponseWithHeaders(StatusOk,
                            SetupHeaders(EphemeralPort(n_bound + 1),
                                         EphemeralPort(n_bound + 2),
                                         EphemeralPort(n_bound + 3))),
                        None, None, 3,
                        Some([port |-> EphemeralPort(n_bound + 1),
                              info |-> stream_info.v]))
      ELSE OkWith(ResponseNew(StatusBadRequest))

handle_setup(request, bindOk) ==
    IF impl = "RtspSession" THEN RtspHandleSetup(request)
    ELSE RaopHandleSetup(request, bindOk)

\* A match that answers RECORD, PAUSE and FLUSH by the state: 400 while the
\* session has no StreamInfo
DispatchByState(request, sinkOk, bindOk) ==
    CASE request.method = "ANNOUNCE" -> handle_announce(request, sinkOk)
      [] request.method = "SETUP" -> handle_setup(request, bindOk)
      [] request.method \in {"RECORD", "PAUSE", "FLUSH"} ->
           IF stream_info = None THEN OkWith(ResponseNew(StatusBadRequest))
           ELSE OkWith(ResponseNew(StatusOk))
      [] request.method = "TEARDOWN" -> OkWith(ResponseNew(StatusOk))
      [] request.method = "OPTIONS" -> handle_options(request)
      [] request.method = "GET_PARAMETER" -> OkWith(ResponseNew(StatusOk))
      [] request.method = "SET_PARAMETER" -> OkWith(ResponseNew(StatusOk))
      [] request.method = "POST" -> OkWith(ResponseNew(StatusNotFound))
      [] request.method = "GET" -> OkWith(ResponseNew(StatusNotFound))
      [] OTHER -> OkWith(ResponseNew(StatusMethodNotAllowed))

\* The match on request.method in handle_rtsp / handle_request
Dispatch(request, sinkOk, bindOk) ==
    CASE request.method = "ANNOUNCE" -> handle_announce(request, sinkOk)
      [] request.method = "SETUP" -> handle_setup(request, bindOk)
      [] request.method = "RECORD" -> OkWith(ResponseNew(StatusOk))
      [] request.method = "PAUSE" -> OkWith(ResponseNew(StatusOk))
      [] request.method = "FLUSH" -> OkWith(ResponseNew(StatusOk))
      [] request.method = "TEARDOWN" -> OkWith(ResponseNew(StatusOk))
      [] request.method = "OPTIONS" -> handle_options(request)
      [] request.method = "GET_PARAMETER" -> OkWith(ResponseNew(StatusOk))
      [] request.method = "SET_PARAMETER" -> OkWith(ResponseNew(StatusOk))
      [] request.method = "POST" -> OkWith(ResponseNew(StatusNotFound))
      [] request.method = "GET" -> OkWith(ResponseNew(StatusNotFound))
      [] OTHER -> OkWith(ResponseNew(StatusMethodNotAllowed))

\* AppleChallenge::response / RaopSession::apple_response: the signature of
\* the decoded challenge followed by the local address and the MAC
AppleResponse(challenge) == [sign |-> challenge, ip_mac |-> "ip_mac"]

\* The headers handle_rtsp adds to a handler's Ok(response)
WithCSeq(response, request) ==
    IF request.cseq # NoHeader
      THEN [response EXCEPT !.headers = Insert(@, "CSeq", request.cseq)]
      ELSE response
WithAppleResponse(response, request) ==
    IF request.challenge # NoHeader
      THEN [response EXCEPT !.headers =
              Insert(@, "Apple-Response", AppleResponse(request.challenge))]
      ELSE response
WithServer(response) ==
    [response EXCEPT !.headers = Insert(@, "Server", "ras/0.1")]

\* What handle_rtsp makes of a handler's Err
ErrorResponse(request) == ResponseNew(StatusInternalServerError)

\* RtspSession::handle_rtsp / RaopSession::handle_request. raised records
\* that the handler returned Err.
handle_rtsp(request, sinkOk, bindOk) ==
    LET result == Dispatch(request, sinkOk, bindOk) IN
      IF result.kind = "Panic" THEN [result EXCEPT !.raised = FALSE]
      ELSE IF result.kind = "Ok"
        THEN IF request.challenge = "not-base64"
               THEN [result EXCEPT !.kind = "Panic", !.res = NoResponse,
                                   !.raised = FALSE]
               ELSE [result EXCEPT
                       !.res = WithServer(WithAppleResponse(
                                   WithCSeq(result.res, request), request)),
                       !.raised = FALSE]
        ELSE [result EXCEPT !.kind = "Ok", !.res = ErrorResponse(request),
                            !.raised = TRUE]

(***************************************************************************)
(* The data plane.                                                         *)
(***************************************************************************)
\* An RTP payload: its bytes, and whether the ALAC decoder accepts the frame
\* they hold (the L16 decoder accepts everything).
Payloads == {[bytes |-> "a", alac_valid |-> TRUE],
             [bytes |-> "b", alac_valid |-> FALSE]}
PayloadTypes == {AnnouncePayloadType, AnnouncePayloadType + 1}
RtpPackets == [payload_type : PayloadTypes, payload : Payloads]
NoPacket == [payload_type |-> 0, payload |-> [bytes |-> "", alac_valid |-> FALSE]]

\* What a datagram is to the codec of the socket it reaches: a packet, one
\* the codec returns Err for (RTP version other than 2), or one it returns
\* Ok(None) for (too short), which the framed socket skips.
RtpDatagramKinds == {"packet", "bad_version", "truncated"}
ControlDatagramKinds == {"packet", "truncated"}
Datagram(kind, packet) == [kind |-> kind, packet |-> packet]
RtpDatagrams ==
    {Datagram("packet", p) : p \in RtpPackets}
    \cup {Datagram(k, NoPacket) : k \in RtpDatagramKinds \ {"packet"}}

\* Bytes on their way to the sink: decrypt marks them with the key, the ALAC
\* decoder turns them into PCM, the L16 decoder returns them as they are.
RawData(payload) == [bytes |-> payload.bytes, aes |-> NoHeader, pcm |-> FALSE]
Decrypt(cipher, data) == [data EXCEPT !.aes = cipher.key]
DecodeOk(decoder, payload) == decoder.codec = "L16" \/ payload.alac_valid
Decode(decoder, data) ==
    IF decoder.codec = "AppleLossless" THEN [data EXCEPT !.pcm = TRUE]
    ELSE data

\* cipher -> decoder, as handle_rtp and rtp_loop chain them
Decoded(info, payload) ==
    IF info.cipher.kind = "Some"
      THEN Decode(info.decoder, Decrypt(info.cipher.v, RawData(payload)))
      ELSE Decode(info.decoder, RawData(payload))

\* The test on the payload type in handle_rtp / rtp_loop
TypeMatches(info, packet) == packet.payload_type = info.rtp_type

\* RtspSession::handle_rtp: kind is Ok or Err, write the payload handed to
\* session.write (None when it was not called).
HandleRtp(packet, writeOk) ==
    IF stream_info.kind = "None" THEN [kind |-> "Err", write |-> None]
    ELSE IF ~TypeMatches(stream_info.v, packet)
      THEN [kind |-> "Err", write |-> None]
    ELSE IF ~DecodeOk(stream_info.v.decoder, packet.payload)
      THEN [kind |-> "Err", write |-> None]
    ELSE [kind |-> IF writeOk THEN "Ok" ELSE "Err",
          write |-> Some(Decoded(stream_info.v, packet.payload))]

\* One iteration of RaopSession::rtp_loop on a parsed packet
RaopRtpStep(info, packet, writeOk) ==
    IF TypeMatches(info, packet)
      THEN IF ~DecodeOk(info.decoder, packet.payload)
             THEN [kind |-> "Err", write |-> None]
             ELSE [kind |-> IF writeOk THEN "Ok" ELSE "Err",
                   write |-> Some(Decoded(info, packet.payload))]
      ELSE [kind |-> "Ok", write |-> None]

(***************************************************************************)
(* Resources.                                                              *)
(***************************************************************************)
SinkSession(format) == [open |-> TRUE, format |-> format, writes |-> <<>>]
CloseSink(ss, i) == IF i \in DOMAIN ss THEN [ss EXCEPT ![i].open = FALSE] ELSE ss
\* WriteSink with the new payload put in front of the earlier ones
WriteSinkInFront(ss, i, w) ==
    IF w.kind = "Some" THEN [ss EXCEPT ![i].writes = <<w.v>> \o @] ELSE ss
WriteSink(ss, i, w) ==
    IF w.kind = "Some" THEN [ss EXCEPT ![i].writes = Append(@, w.v)] ELSE ss
\* The sink session a StreamInfo owns (RtspSession only)
OwnedSink(si) == IF si.kind = "Some" THEN si.v.session ELSE 0

\* The session value goes out of scope: start returns or unwinds. Dropping
\* an RtspSession drops its StreamInfo and with it the sink session.
DroppedSinks(ss, si) ==
    IF impl = "RtspSession" THEN CloseSink(ss, OwnedSink(si)) ELSE ss

Running == status = "running"
Ended == status \in {"returned_ok", "returned_err", "panicked"}

(***************************************************************************)
(* The mDNS responder (src/src/mdns).                                      *)
(*                                                                         *)
(* A dotted name such as "_raop._tcp.local" is the sequence of its labels, *)
(* which is what split('.') makes of it; format!("{}.{}", a, b) is then    *)
(* a \o b. A datagram carries its questions as they are on the wire: the   *)
(* name, the 16-bit type and the 16-bit class.                             *)
(***************************************************************************)
\* Service::new
Service(type, name, port, txt) ==
    [type |-> type \o <<"local">>, name |-> name \o type \o <<"local">>,
     port |-> port, txt |-> txt]

\* The service main.rs announces, and a longer list: a second instance of
\* the same type without TXT strings, and a service of another type.
RaopTxt ==
    <<"txtvers=1", "md=0,1,2", "ss=16", "sr=44100", "ch=2", "et=0,1",
      "cn=0,1", "pw=false", "tp=UDP", "vn=65537">>
MainServices ==
    << Service(<<"_raop", "_tcp">>, <<"001122334455@ras">>, 7000, RaopTxt) >>
ManyServices ==
    MainServices \o
    << Service(<<"_raop", "_tcp">>, <<"second">>, 7001, <<>>),
       Service(<<"_http", "_tcp">>, <<"web">>, 80, <<"path=/">>) >>
ServiceLists == {MainServices, ManyServices}

\* Server::new: the host's name with ".local", and the (ip, cidr) pair of
\* every interface, a cidr being the set of the addresses it contains.
Hostname == <<"ras-host", "local">>
Prefixes ==
    << [ip |-> "10.0.0.2", cidr |-> {"10.0.0.7"}],
       [ip |-> "10.1.0.2", cidr |-> {"10.0.0.7", "10.9.9.9"}] >>
Origins == {"10.0.0.7", "10.9.9.9", "192.168.1.7"}
Interfaces == {"eth0", "wlan0"}

\* What arrives on the multicast socket
QuestionNames ==
    {<<"_raop", "_tcp", "local">>, <<"_http", "_tcp", "local">>,
     <<"_raop", "_tcp">>}
RawTypes == {12, 1}
RawClasses == {1, 32769}
RawQuestions == [name : QuestionNames, type : RawTypes, class : RawClasses]
RawQuestionLists ==
    {<<>>} \cup {<<q>> : q \in RawQuestions}
           \cup {<<p, q>> : p, q \in RawQuestions}
Messages ==
    [parses : {TRUE}, id : {7, 1573}, response : BOOLEAN,
     questions : RawQuestionLists, origin_address : Origins,
     interface : Interfaces]
    \cup [parses : {FALSE}, id : {7}, response : {FALSE}, questions : {<<>>},
          origin_address : Origins, interface : Interfaces]

\* ResourceType::parse
ResourceTypeParse(raw) ==
    CASE raw = 1 -> "A"
      [] raw = 12 -> "PTR"
      [] raw = 16 -> "TXT"
      [] raw = 28 -> "AAAA"
      [] raw = 33 -> "SRV"
      [] OTHER -> "Unknown"

\* Question::parse: the top bit of the class is the unicast-response bit
QuestionParse(raw) ==
    [name |-> raw.name, type |-> ResourceTypeParse(raw.type),
     class |-> raw.class % 32768,
     unicast |-> (raw.class \div 32768) % 2 = 1]

\* Packet::parse
PacketParse(message) ==
    IF ~message.parses THEN None
    ELSE Some([header |-> [id |-> message.id, response |-> message.response],
               questions |-> [i \in DOMAIN message.questions |->
                                QuestionParse(message.questions[i])]])

\* Header::is_query
is_query_whatever_the_flag(header) == TRUE
is_query(header) == ~header.response

\* Name::equals
NameEquals(name, other) == name = other

\* ResourceRecord::new
ResourceRecord(name, ttl, data) == [name |-> name, ttl |-> ttl, data |-> data]

\* Packet::new_response
new_response_id0(packet_id, questions, answers, nameservers, additionals) ==
    [header |-> [id |-> 0, response |-> TRUE,
                 qd_count |-> Len(questions), an_count |-> Len(answers),
                 ns_count |-> Len(nameservers),
                 ar_count |-> Len(additionals)],
     questions |-> questions, answers |-> answers,
     nameservers |-> nameservers, additionals |-> additionals]
new_response(packet_id, questions, answers, nameservers, additionals) ==
    [header |-> [id |-> packet_id, response |-> TRUE,
                 qd_count |-> Len(questions), an_count |-> Len(answers),
                 ns_count |-> Len(nameservers),
                 ar_count |-> Len(additionals)],
     questions |-> questions, answers |-> answers,
     nameservers |-> nameservers, additionals |-> additionals]

\* find_local_ip falling back on the first prefix where none contains the
\* remote address
find_local_ip_or_first(remote_addr) ==
    LET hits == {i \in DOMAIN Prefixes : remote_addr \in Prefixes[i].cidr}
    IN  IF hits = {} THEN Some(Prefixes[1].ip)
        ELSE Some(Prefixes[CHOOSE i \in hits : \A j \in hits : i <= j].ip)

\* Server::find_local_ip: the address of the first prefix that contains the
\* remote address
find_local_ip(remote_addr) ==
    LET hits == {i \in DOMAIN Prefixes : remote_addr \in Prefixes[i].cidr}
    IN  IF hits = {} THEN None
        ELSE Some(Prefixes[CHOOSE i \in hits : \A j \in hits : i <= j].ip)

\* create_response pushing a TXT record whatever the service's list holds
create_response_with_txt(service, remote_addr) ==
    LET ip == find_local_ip(remote_addr) IN
      IF ip.kind = "None"
        THEN [kind |-> "Err", answers |-> <<>>, additionals |-> <<>>]
        ELSE [kind |-> "Ok",
              answers |->
                << ResourceRecord(service.type, 3600,
                       [type |-> "PTR", name |-> service.name]) >>,
              additionals |->
                << ResourceRecord(service.name, 3600,
                       [type |-> "SRV", priority |-> 0, weight |-> 0,
                        port |-> service.port, target |-> Hostname]),
                   ResourceRecord(service.name, 3600,
                       [type |-> "TXT", txt |-> service.txt]),
                   ResourceRecord(Hostname, 3600,
                       [type |-> "A", ip |-> ip.v]) >>]

\* Server::create_response: the answer group of a service
create_response(service, remote_addr) ==
    LET ip == find_local_ip(remote_addr) IN
      IF ip.kind = "None"
        THEN [kind |-> "Err", answers |-> <<>>, additionals |-> <<>>]
        ELSE [kind |-> "Ok",
              answers |->
                << ResourceRecord(service.type, 3600,
                       [type |-> "PTR", name |-> service.name]) >>,
              additionals |->
                << ResourceRecord(service.name, 3600,
                       [type |-> "SRV", priority |-> 0, weight |-> 0,
                        port |-> service.port, target |-> Hostname]) >>
                \o (IF service.txt # <<>>
                      THEN << ResourceRecord(service.name, 3600,
                                  [type |-> "TXT", txt |-> service.txt]) >>
                      ELSE <<>>)
                \o << ResourceRecord(Hostname, 3600,
                          [type |-> "A", ip |-> ip.v]) >>]

\* The response a question's answer group is appended to
QueueMulticast(question) == "multicast"
QueueFor(question) == IF question.unicast THEN "unicast" ELSE "multicast"

\* The two nested loops of handle_packet from their k-th turn on, questions
\* outside and services inside. groups records every group create_response
\* gave, with the numbers of its question and its service.
EmptyQueues ==
    [unicast |-> [answers |-> <<>>, additionals |-> <<>>],
     multicast |-> [answers |-> <<>>, additionals |-> <<>>],
     groups |-> <<>>]
RECURSIVE AnswerQuestions(_, _, _, _)
AnswerQuestions(packet, remote_addr, k, queues) ==
    LET n == Len(services) IN
      IF k > Len(packet.questions) * n THEN Some(queues)
      ELSE LET qi == ((k - 1) \div n) + 1
               si == ((k - 1) % n) + 1
               question == packet.questions[qi]
               service == services[si]
           IN  IF /\ question.type = "PTR"
                  /\ NameEquals(question.name, service.type)
                 THEN LET r == create_response(service, remote_addr)
                          q == QueueFor(question)
                      IN  IF r.kind = "Err" THEN None
                          ELSE AnswerQuestions(packet, remote_addr, k + 1,
                                 [queues EXCEPT
                                    ![q].answers = @ \o r.answers,
                                    ![q].additionals = @ \o r.additionals,
                                    !.groups =
                                      Append(@, [question |-> qi,
                                                 service |-> si,
                                                 answers |-> r.answers,
                                                 additionals |->
                                                   r.additionals])])
                 ELSE AnswerQuestions(packet, remote_addr, k + 1, queues)

\* A queue as the packet to send, whether it holds a record or not
QueuedPacketAlways(packet_id, queue) ==
    Some(new_response(packet_id, <<>>, queue.answers, <<>>,
                      queue.additionals))

\* A queue as the packet to send, if it holds any record
QueuedPacket(packet_id, queue) ==
    IF queue.answers # <<>> \/ queue.additionals # <<>>
      THEN Some(new_response(packet_id, <<>>, queue.answers, <<>>,
                             queue.additionals))
      ELSE None

\* Server::handle_packet
handle_packet(message) ==
    LET parsed == PacketParse(message) IN
      IF parsed.kind = "None" THEN None
      ELSE IF ~is_query(parsed.v.header) THEN None
      ELSE LET queues == AnswerQuestions(parsed.v, message.origin_address,
                                         1, EmptyQueues)
           IN  IF queues.kind = "None" THEN None
               ELSE Some([unicast |-> QueuedPacket(parsed.v.header.id,
                                                   queues.v.unicast),
                          multicast |-> QueuedPacket(parsed.v.header.id,
                                                     queues.v.multicast),
                          groups |-> queues.v.groups])

NoMdnsOut ==
    [handled |-> None, unicast |-> None, multicast |-> None, sent |-> <<>>]

(***************************************************************************)
(* The session task.                                                       *)
(*                                                                         *)
(* last_req, last_res and last_dgram describe the event the session        *)
(* handled last: an RTSP frame (then last_dgram is NoLastDgram) or a       *)
(* datagram (then last_req and last_res are NoLastReq and NoLastRes). The  *)
(* end of the stream is the request EofRequest. by is the RTP task that    *)
(* handled the datagram, 0 where the session's own loop did.               *)
(***************************************************************************)
NoLastReq == [n |-> 0, req |-> NoRequest, new |-> FALSE]
NoLastRes == [n |-> 0, res |-> NoResponse, raised |-> FALSE, sent |-> FALSE]
NoLastDgram == [socket |-> NoHeader, kind |-> NoHeader, packet |-> NoPacket,
                result |-> NoHeader, by |-> 0]

\* The outcomes of the environment a request's handling can meet: the sink
\* starting (ANNOUNCE in RtspSession), the sockets binding (SETUP in
\* RaopSession), the response being written.
SinkOutcomes(method) ==
    IF method = "ANNOUNCE" /\ impl = "RtspSession" THEN BOOLEAN ELSE {TRUE}
BindOutcomes(method) ==
    IF method = "SETUP" /\ impl = "RaopSession" THEN BOOLEAN ELSE {TRUE}
InitProcess ==
    /\ impl \in Impls
    /\ id = 1
    /\ status = "spawned"
    /\ stream_info = None
    /\ ports = <<0, 0, 0>>
    /\ udp_open = FALSE
    /\ sink_sessions = <<>>
    /\ rtp_tasks = <<>>
    /\ n_bound = 0
    /\ n_arrived = 0
    /\ n_read = 0
    /\ tcp_eof = FALSE
    /\ tcp_out = 0
    /\ last_req = NoLastReq
    /\ last_res = NoLastRes
    /\ announced = FALSE
    /\ n_announced = 0
    /\ n_datagrams = 0
    /\ last_dgram = NoLastDgram
    /\ listener = "running"
    /\ next_id = 1
    /\ spawned = <<>>
    /\ n_accepts = 0

\* main.rs makes the Server with its one service
Init ==
    /\ InitProcess
    /\ mdns = "running"
    /\ services = MainServices
    /\ mdns_msg = None
    /\ mdns_out = NoMdnsOut
    /\ sel = None
    /\ framed = None
    /\ call = None

\* RtspSession::start binds the three sockets and enters the loop;
\* RaopSession::start enters the loop at once.
Start ==
    /\ status = "spawned"
    /\ \E bindOk \in BOOLEAN :
         IF impl = "RtspSession"
           THEN IF bindOk
                  THEN /\ status' = "running"
                       /\ ports' = <<EphemeralPort(n_bound + 1),
                                     EphemeralPort(n_bound + 2),
                                     EphemeralPort(n_bound + 3)>>
                       /\ n_bound' = n_bound + 3
                       /\ udp_open' = TRUE
                  ELSE /\ status' = "returned_err"
                       /\ UNCHANGED <<ports, n_bound, udp_open>>
           ELSE /\ status' = "running"
                /\ UNCHANGED <<ports, n_bound, udp_open>>
    /\ UNCHANGED <<impl, id, stream_info, sink_sessions, rtp_tasks, n_arrived,
                   n_read, tcp_eof, tcp_out, last_req, last_res, announced,
                   n_announced, n_datagrams, last_dgram, serveVars, otherVars>>

\* The client writes one more frame to the stream, up to limit frames
ClientSends(limit) ==
    /\ status \in {"spawned", "running"}
    /\ ~tcp_eof
    /\ n_arrived < limit
    /\ n_arrived' = n_arrived + 1
    /\ UNCHANGED <<impl, id, status, stream_info, ports, udp_open,
                   sink_sessions, rtp_tasks, n_bound, n_read, tcp_eof, tcp_out,
                   last_req, last_res, announced, n_announced, n_datagrams,
                   last_dgram, serveVars, otherVars>>

ClientSend == ClientSends(MaxRequests)

\* The client closes the connection
ClientClose ==
    /\ status \in {"spawned", "running"}
    /\ ~tcp_eof
    /\ tcp_eof' = TRUE
    /\ UNCHANGED <<impl, id, status, stream_info, ports, udp_open,
                   sink_sessions, rtp_tasks, n_bound, n_arrived, n_read,
                   tcp_out, last_req, last_res, announced, n_announced,
                   n_datagrams, last_dgram, serveVars, otherVars>>

\* NextFrame taking the frame that arrived last
NewestFrame == n_arrived
\* The frame rtsp_read.next() yields: the oldest one not yet read
NextFrame == n_read + 1

\* One turn of the RTSP branch of the loop on a well-formed frame: the
\* request is handled and the response is sent before the loop goes on.
\* methods are the methods the client uses.
RtspRequestOf(methods) ==
    /\ Running
    /\ n_read < n_arrived
    /\ \E m \in methods, c \in CSeqsAt(NextFrame), sendOk \in BOOLEAN :
       \E ch \in ChallengesOf(m), tr \in TransportsOf(m), b \in BodiesOf(m) :
       \E sinkOk \in SinkOutcomes(m), bindOk \in BindOutcomes(m) :
       \E request \in {Request(m, c, ch, tr, b)} :
       \E out \in {handle_rtsp(request, sinkOk, bindOk)} :
         LET okAnnounce == /\ request.method = "ANNOUNCE"
                           /\ out.kind = "Ok"
                           /\ out.res.status = StatusOk
             opened == IF out.opened.kind = "Some"
                         THEN Append(CloseSink(sink_sessions,
                                               OwnedSink(stream_info)),
                                     SinkSession(out.opened.v))
                         ELSE sink_sessions
             ends == out.kind = "Panic" \/ ~sendOk
         IN  /\ status' = IF out.kind = "Panic" THEN "panicked"
                          ELSE IF ~sendOk THEN "returned_err"
                          ELSE status
             /\ stream_info' = IF ends THEN None ELSE out.si
             /\ sink_sessions' = IF ends THEN DroppedSinks(opened, out.si)
                                 ELSE opened
             /\ udp_open' = IF ends THEN FALSE ELSE udp_open
             /\ rtp_tasks' = IF out.task.kind = "Some"
                               THEN Append(rtp_tasks,
                                           [pc |-> "start",
                                            port |-> out.task.v.port,
                                            info |-> out.task.v.info,
                                            session |-> 0])
                               ELSE rtp_tasks
             /\ n_bound' = n_bound + out.bound
             /\ tcp_out' = IF ends THEN tcp_out ELSE tcp_out + 1
             /\ last_req' = [n |-> NextFrame, req |-> request,
                             new |-> ~announced]
             /\ last_res' = [n |-> IF ends THEN 0 ELSE NextFrame,
                             res |-> IF ends THEN NoResponse ELSE out.res,
                             raised |-> out.raised, sent |-> ~ends]
             /\ announced' = (announced \/ okAnnounce)
             /\ n_announced' = IF okAnnounce THEN n_announced + 1
                               ELSE n_announced
    /\ n_read' = n_read + 1
    /\ last_dgram' = NoLastDgram
    /\ UNCHANGED <<impl, id, ports, n_arrived, tcp_eof, n_datagrams,
                   serveVars, otherVars>>

RtspRequest == RtspRequestOf(Methods)

\* The session value is dropped and the loop is over
SessionExit(how) ==
    /\ status' = how
    /\ stream_info' = None
    /\ sink_sessions' = DroppedSinks(sink_sessions, stream_info)
    /\ udp_open' = FALSE

\* The codec fails on the next frame: decode returns Err (the header is not
\* UTF-8, Content-Length is not a number) or panics (a line it indexes past).
RtspBadFrame ==
    /\ Running
    /\ n_read < n_arrived
    /\ \E how \in {"returned_err", "panicked"} : SessionExit(how)
    /\ n_read' = n_read + 1
    /\ last_req' = [n |-> NextFrame, req |-> NoRequest, new |-> ~announced]
    /\ last_res' = NoLastRes
    /\ last_dgram' = NoLastDgram
    /\ UNCHANGED <<impl, id, ports, rtp_tasks, n_bound, n_arrived, tcp_eof,
                   tcp_out, announced, n_announced, n_datagrams,
                   serveVars, otherVars>>

\* What the loop does when the stream yields None
OnEof == IF impl = "RtspSession" THEN "returned_ok" ELSE "panicked"

\* The stream ends: every frame was read and the client has closed
RtspEof ==
    /\ Running
    /\ n_read = n_arrived
    /\ tcp_eof
    /\ SessionExit(OnEof)
    /\ last_req' = [n |-> 0, req |-> EofRequest, new |-> ~announced]
    /\ last_res' = NoLastRes
    /\ last_dgram' = NoLastDgram
    /\ UNCHANGED <<impl, id, ports, rtp_tasks, n_bound, n_arrived, n_read,
                   tcp_eof, tcp_out, announced, n_announced, n_datagrams,
                   serveVars, otherVars>>

\* The outcomes session.write can have for a datagram: it is only called
\* for a packet of the stream's type that decodes.
WriteOutcomes(si, d) ==
    IF /\ d.kind = "packet"
       /\ si.kind = "Some"
       /\ TypeMatches(si.v, d.packet)
       /\ DecodeOk(si.v.decoder, d.packet.payload)
      THEN BOOLEAN
      ELSE {TRUE}

\* What the RTP branch of the select loop does with handle_rtp's result
AfterRtp(result) == IF result = "Err" THEN "returned_err" ELSE status

\* RtspSession, the rtp branch of the select loop
RtpDatagram ==
    /\ impl = "RtspSession"
    /\ Running
    /\ n_datagrams < MaxPackets
    /\ \E d \in RtpDatagrams :
       \E writeOk \in WriteOutcomes(stream_info, d) :
       \E out \in {IF d.kind = "packet" THEN HandleRtp(d.packet, writeOk)
                   ELSE IF d.kind = "bad_version"
                     THEN [kind |-> "Err", write |-> None]
                     ELSE [kind |-> "Skipped", write |-> None]} :
         LET kind == d.kind
             packet == d.packet
             written == WriteSink(sink_sessions, OwnedSink(stream_info),
                                  out.write)
             next == AfterRtp(out.kind)
         IN  /\ status' = next
             /\ stream_info' = IF next = status THEN stream_info ELSE None
             /\ sink_sessions' = IF next = status THEN written
                                 ELSE DroppedSinks(written, stream_info)
             /\ udp_open' = (next = status)
             /\ last_dgram' = [socket |-> "rtp", kind |-> kind,
                               packet |-> packet,
                               result |-> out.kind, by |-> 0]
    /\ n_datagrams' = n_datagrams + 1
    /\ last_req' = NoLastReq
    /\ last_res' = NoLastRes
    /\ UNCHANGED <<impl, id, ports, rtp_tasks, n_bound, n_arrived, n_read,
                   tcp_eof, tcp_out, announced, n_announced,
                   serveVars, otherVars>>

\* RtspSession, the control branch: handle_control logs and returns Ok; the
\* control codec has no error to return.
ControlDatagram ==
    /\ impl = "RtspSession"
    /\ Running
    /\ n_datagrams < MaxPackets
    /\ \E kind \in ControlDatagramKinds :
         last_dgram' = [socket |-> "control", kind |-> kind,
                        packet |-> NoPacket,
                        result |-> IF kind = "packet" THEN "Ok" ELSE "Skipped",
                        by |-> 0]
    /\ n_datagrams' = n_datagrams + 1
    /\ last_req' = NoLastReq
    /\ last_res' = NoLastRes
    /\ UNCHANGED <<impl, id, status, stream_info, ports, udp_open,
                   sink_sessions, rtp_tasks, n_bound, n_arrived, n_read,
                   tcp_eof, tcp_out, announced, n_announced,
                   serveVars, otherVars>>

\* RtspSession, the timing branch: the RTP codec reads the datagram, and
\* handle_timing logs the packet and returns Ok.
TimingDatagram ==
    /\ impl = "RtspSession"
    /\ Running
    /\ n_datagrams < MaxPackets
    /\ \E kind \in RtpDatagramKinds :
         LET result == IF kind = "packet" THEN "Ok"
                       ELSE IF kind = "bad_version" THEN "Err" ELSE "Skipped"
         IN  /\ IF result = "Err"
                  THEN SessionExit("returned_err")
                  ELSE UNCHANGED <<status, stream_info, sink_sessions, udp_open>>
             /\ last_dgram' = [socket |-> "timing", kind |-> kind,
                               packet |-> NoPacket, result |-> result,
                               by |-> 0]
    /\ n_datagrams' = n_datagrams + 1
    /\ last_req' = NoLastReq
    /\ last_res' = NoLastRes
    /\ UNCHANGED <<impl, id, ports, rtp_tasks, n_bound, n_arrived, n_read,
                   tcp_eof, tcp_out, announced, n_announced,
                   serveVars, otherVars>>

\* RaopSession::rtp_loop, before the loop: the task opens its sink session.
\* The spawned future unwraps rtp_loop's result, so an Err is a panic of
\* the task.
RtpTaskStart(t) ==
    /\ rtp_tasks[t].pc = "start"
    /\ \E sinkOk \in BOOLEAN :
         IF sinkOk
           THEN /\ sink_sessions' =
                     Append(sink_sessions,
                            SinkSession(rtp_tasks[t].info.decoder.format))
                /\ rtp_tasks' = [rtp_tasks EXCEPT
                                   ![t].pc = "recv",
                                   ![t].session = Len(sink_sessions) + 1]
           ELSE /\ rtp_tasks' = [rtp_tasks EXCEPT ![t].pc = "panicked"]
                /\ UNCHANGED sink_sessions
    /\ UNCHANGED <<impl, id, status, stream_info, ports, udp_open, n_bound,
                   n_arrived, n_read, tcp_eof, tcp_out, last_req, last_res,
                   announced, n_announced, n_datagrams, last_dgram,
                   serveVars, otherVars>>

\* RaopSession::rtp_loop, one iteration: any datagram RtpReader rejects ends
\* the task, as does a decode or write error.
RtpTaskDatagram(t) ==
    /\ rtp_tasks[t].pc = "recv"
    /\ n_datagrams < MaxPackets
    /\ \E d \in RtpDatagrams :
       \E writeOk \in WriteOutcomes(Some(rtp_tasks[t].info), d) :
       \E out \in {IF d.kind = "packet"
                     THEN RaopRtpStep(rtp_tasks[t].info, d.packet, writeOk)
                     ELSE [kind |-> "Err", write |-> None]} :
         LET kind == d.kind
             packet == d.packet
             task == rtp_tasks[t]
             written == WriteSink(sink_sessions, task.session, out.write)
         IN  /\ rtp_tasks' = [rtp_tasks EXCEPT
                                ![t].pc = IF out.kind = "Err" THEN "panicked"
                                          ELSE "recv"]
             /\ sink_sessions' = IF out.kind = "Err"
                                   THEN CloseSink(written, task.session)
                                   ELSE written
             /\ last_dgram' = [socket |-> "rtp", kind |-> kind,
                               packet |-> packet,
                               result |-> out.kind, by |-> t]
    /\ n_datagrams' = n_datagrams + 1
    /\ last_req' = NoLastReq
    /\ last_res' = NoLastRes
    /\ UNCHANGED <<impl, id, status, stream_info, ports, udp_open, n_bound,
                   n_arrived, n_read, tcp_eof, tcp_out, announced, n_announced,
                   serveVars, otherVars>>

Next ==
    \/ Start
    \/ ClientSend
    \/ ClientClose
    \/ RtspRequest
    \/ RtspBadFrame
    \/ RtspEof
    \/ RtpDatagram
    \/ ControlDatagram
    \/ TimingDatagram
    \/ \E t \in DOMAIN rtp_tasks : RtpTaskStart(t)
    \/ \E t \in DOMAIN rtp_tasks : RtpTaskDatagram(t)

Spec == Init /\ [][Next]_vars

(***************************************************************************)
(* The same session with a client that only sets streams up: it sends      *)
(* ANNOUNCE and SETUP, and more of them.                                   *)
(***************************************************************************)
StreamMethods == {"ANNOUNCE", "SETUP"}
StreamClientSend == ClientSends(MaxStreamRequests)
StreamRtspRequest == RtspRequestOf(StreamMethods)

NextStream ==
    \/ Start
    \/ StreamClientSend
    \/ ClientClose
    \/ StreamRtspRequest
    \/ RtspBadFrame
    \/ RtspEof
    \/ RtpDatagram
    \/ ControlDatagram
    \/ TimingDatagram
    \/ \E t \in DOMAIN rtp_tasks : RtpTaskStart(t)
    \/ \E t \in DOMAIN rtp_tasks : RtpTaskDatagram(t)

SpecStream == Init /\ [][NextStream]_vars

(***************************************************************************)
(* The control plane alone: the same session with a client that sends      *)
(* every method, and more requests, but no datagram.                       *)
(***************************************************************************)
NextControl ==
    \/ Start
    \/ StreamClientSend
    \/ ClientClose
    \/ RtspRequest
    \/ RtspBadFrame
    \/ RtspEof

SpecControl == Init /\ [][NextControl]_vars

(***************************************************************************)
(* The listener: serve in main.rs.                                         *)
(***************************************************************************)
\* NextId that leaves the counter as it is
SameId(i) == i
\* id += 1. The counter is a u32; MaxConnections keeps it far from its end.
NextId(i) == i + 1

\* incoming.next() yields Ok(stream): the handler is spawned with the
\* current id and the counter moves on.
Accept ==
    /\ listener = "running"
    /\ n_accepts < MaxConnections
    /\ spawned' = Append(spawned, [id |-> next_id, status |-> "running",
                                   stream_info |-> None])
    /\ next_id' = NextId(next_id)
    /\ n_accepts' = n_accepts + 1
    /\ UNCHANGED <<listener, mdnsVars, sessionVars, otherVars>>

\* incoming.next() yields Err: stream? returns it and serve is over
AcceptError ==
    /\ listener = "running"
    /\ n_accepts < MaxConnections
    /\ listener' = "returned_err"
    /\ n_accepts' = n_accepts + 1
    /\ UNCHANGED <<next_id, spawned, mdnsVars, sessionVars, otherVars>>

\* ListenerAfterHandler with serve joining the handlers it spawned
ListenerJoinsHandler(how) ==
    IF how = "panicked" THEN "panicked" ELSE listener
\* spawn(handler(id, stream)) drops the JoinHandle: however the handler's
\* task ends, serve never learns of it.
ListenerAfterHandler(how) == listener

\* The codecs a handler's session can hold a StreamInfo for
HandlerCodecs == {"AppleLossless", "L16"}

\* The session of a spawned handler handles a successful ANNOUNCE: its
\* StreamInfo is replaced. The session is the handler's own value.
HandlerAnnounce(i) ==
    /\ spawned[i].status = "running"
    /\ \E codec \in HandlerCodecs :
         /\ spawned[i].stream_info # Some(codec)
         /\ spawned' = [spawned EXCEPT ![i].stream_info = Some(codec)]
    /\ UNCHANGED <<listener, next_id, n_accepts, mdnsVars, sessionVars,
                   otherVars>>

\* A spawned handler is over: RaopSession::start returned (the stream
\* ended in an error), or panicked. Its session is dropped.
HandlerEnd(i) ==
    /\ spawned[i].status = "running"
    /\ \E how \in {"returned", "panicked"} :
         /\ spawned' = [spawned EXCEPT ![i].status = how,
                                       ![i].stream_info = None]
         /\ listener' = ListenerAfterHandler(how)
    /\ UNCHANGED <<next_id, n_accepts, mdnsVars, sessionVars, otherVars>>

\* Server::serve returns an error: receiving fails, or binding the socket
\* for a unicast response, or sending. main's task ends with it.
MdnsFail ==
    /\ mdns = "running"
    /\ mdns_msg = None
    /\ mdns' = "returned_err"
    /\ UNCHANGED <<services, mdns_msg, mdns_out, listener, next_id, spawned,
                   n_accepts, sessionVars, otherVars>>

\* main.rs hands serve a handler that starts a RaopSession
InitServe == Init /\ impl = "RaopSession"

NextServe ==
    \/ Accept
    \/ AcceptError
    \/ \E i \in DOMAIN spawned : HandlerAnnounce(i)
    \/ \E i \in DOMAIN spawned : HandlerEnd(i)
    \/ MdnsFail

SpecServe == InitServe /\ [][NextServe]_vars

(***************************************************************************)
(* The mDNS responder: Server::serve.                                      *)
(***************************************************************************)
\* One turn of serve's loop: a datagram is received, handle_packet makes the
\* responses, the unicast one is sent from a freshly bound socket and then
\* the multicast one on the multicast socket. A failure to bind or to send
\* ends serve.
MdnsDatagram ==
    /\ mdns = "running"
    /\ mdns_msg = None
    /\ \E message \in Messages, unicastOk \in BOOLEAN, multicastOk \in BOOLEAN :
       \E handled \in {handle_packet(message)} :
         LET unicast == IF handled.kind = "Some" THEN handled.v.unicast
                        ELSE None
             multicast == IF handled.kind = "Some" THEN handled.v.multicast
                          ELSE None
             unicastFails == unicast.kind = "Some" /\ ~unicastOk
             multicastFails == /\ ~unicastFails
                               /\ multicast.kind = "Some"
                               /\ ~multicastOk
         IN  /\ mdns_msg' = Some(message)
             /\ mdns_out' =
                   [handled |-> handled,
                    unicast |->
                      IF unicast.kind = "Some" /\ unicastOk
                        THEN Some([to |-> message.origin_address,
                                   packet |-> unicast.v])
                        ELSE None,
                    multicast |->
                      IF /\ ~unicastFails
                         /\ multicast.kind = "Some"
                         /\ multicastOk
                        THEN Some([on |-> message.interface,
                                   packet |-> multicast.v])
                        ELSE None,
                    sent |->
                      (IF unicast.kind = "Some" /\ unicastOk
                         THEN << [kind |-> "unicast",
                                  dest |-> message.origin_address,
                                  packet |-> unicast.v] >>
                         ELSE <<>>)
                      \o (IF /\ ~unicastFails
                             /\ multicast.kind = "Some"
                             /\ multicastOk
                            THEN << [kind |-> "multicast",
                                     dest |-> message.interface,
                                     packet |-> multicast.v] >>
                            ELSE <<>>)]
             /\ mdns' = IF unicastFails \/ multicastFails
                          THEN "returned_err" ELSE "running"
    /\ UNCHANGED <<services, listener, next_id, spawned, n_accepts,
                   sessionVars, otherVars>>

\* The loop comes round: the datagram and the responses are dropped
MdnsNext ==
    /\ mdns = "running"
    /\ mdns_msg # None
    /\ mdns_msg' = None
    /\ mdns_out' = NoMdnsOut
    /\ UNCHANGED <<mdns, services, listener, next_id, spawned, n_accepts,
                   sessionVars, otherVars>>

\* Server::new takes any list of services
InitMdns ==
    /\ InitProcess
    /\ impl = "RaopSession"
    /\ mdns = "running"
    /\ services \in ServiceLists
    /\ mdns_msg = None
    /\ mdns_out = NoMdnsOut
    /\ sel = None
    /\ framed = None
    /\ call = None

NextMdns ==
    \/ MdnsDatagram
    \/ MdnsNext
    \/ MdnsFail

SpecMdns == InitMdns /\ [][NextMdns]_vars

(***************************************************************************)
(* The responder of src/src/mdns/mod.rs, MdnsServer: it answers the first  *)
(* matching question only, always by multicast.                            *)
(***************************************************************************)
\* MdnsServer::new takes the host's name as it is
MdnsServerHostname == <<"ras-host">>

\* MdnsServer::create_response
MdnsServerCreateResponse(service) ==
    [answers |->
       << ResourceRecord(service.type, 3600,
              [type |-> "PTR", name |-> service.name]) >>,
     additionals |->
       << ResourceRecord(service.name, 3600,
              [type |-> "SRV", priority |-> 0, weight |-> 0,
               port |-> service.port, target |-> MdnsServerHostname]) >>
       \o (IF service.txt # <<>>
             THEN << ResourceRecord(service.name, 3600,
                         [type |-> "TXT", txt |-> service.txt]) >>
             ELSE <<>>)
       \o << ResourceRecord(MdnsServerHostname, 3600,
                 [type |-> "A", ip |-> "192.168.1.1"]) >>]

\* MdnsServer::handle_packet: the response to the first (question, service)
\* pair that matches, questions outside and services inside
MdnsServerHandlePacket(message) ==
    LET parsed == PacketParse(message) IN
      IF parsed.kind = "None" THEN None
      ELSE IF ~is_query(parsed.v.header) THEN None
      ELSE LET n == Len(services)
               questions == parsed.v.questions
               hits == {k \in 1..(Len(questions) * n) :
                          /\ questions[((k - 1) \div n) + 1].type = "PTR"
                          /\ NameEquals(questions[((k - 1) \div n) + 1].name,
                                        services[((k - 1) % n) + 1].type)}
           IN  IF hits = {} THEN None
               ELSE LET k == CHOOSE h \in hits : \A g \in hits : h <= g
                        qi == ((k - 1) \div n) + 1
                        si == ((k - 1) % n) + 1
                        r == MdnsServerCreateResponse(services[si])
                    IN  Some([unicast |-> None,
                              multicast |->
                                Some(new_response(parsed.v.header.id, <<>>,
                                                  r.answers, <<>>,
                                                  r.additionals)),
                              groups |-> << [question |-> qi,
                                             service |-> si,
                                             answers |-> r.answers,
                                             additionals |->
                                               r.additionals] >>])

\* One turn of MdnsServer::serve's loop: the response, if any, is sent on
\* the multicast socket; a failure to send ends serve.
MdnsServerDatagram ==
    /\ mdns = "running"
    /\ mdns_msg = None
    /\ \E message \in Messages, multicastOk \in BOOLEAN :
       \E handled \in {MdnsServerHandlePacket(message)} :
         /\ mdns_msg' = Some(message)
         /\ mdns_out' =
               [handled |-> handled,
                unicast |-> None,
                multicast |->
                  IF handled.kind = "Some" /\ multicastOk
                    THEN Some([on |-> message.interface,
                               packet |-> handled.v.multicast.v])
                    ELSE None,
                sent |->
                  IF handled.kind = "Some" /\ multicastOk
                    THEN << [kind |-> "multicast",
                             dest |-> message.interface,
                             packet |-> handled.v.multicast.v] >>
                    ELSE <<>>]
         /\ mdns' = IF handled.kind = "Some" /\ ~multicastOk
                      THEN "returned_err" ELSE "running"
    /\ UNCHANGED <<services, listener, next_id, spawned, n_accepts,
                   sessionVars, otherVars>>

NextMdnsServer ==
    \/ MdnsServerDatagram
    \/ MdnsNext
    \/ MdnsFail

SpecMdnsServer == InitMdns /\ [][NextMdnsServer]_vars

(***************************************************************************)
(* The tasks of one session, step by step.                                 *)
(*                                                                         *)
(* sel.pc is where the session's loop is: "select" (RtspSession's select!, *)
(* RaopSession's rtsp.next().await), "handle" (a request was taken and its *)
(* handler runs), "send" (the response is being written), "rtp_checked"    *)
(* and "rtp_decoded" (RtspSession::handle_rtp after its test of the        *)
(* payload type and after decode), "ended". sel.task_pc is where the task  *)
(* spawned by RaopSession::handle_setup is: "none", "recv", "checked",     *)
(* "decoded". A StreamInfo is the number of the ANNOUNCE that made it, 0   *)
(* for none: sel.info is the session's, sel.task_info the task's. sel.use  *)
(* lists the StreamInfo each stage of the RTP packet in hand has read.     *)
(***************************************************************************)
SelectStart ==
    [pc |-> "select", method |-> NoHeader, info |-> 0, announces |-> 0,
     task_pc |-> "none", task_info |-> 0, use |-> <<>>, n |-> 0]

SelectMethods == {"ANNOUNCE", "SETUP", "OPTIONS"}

\* The loop takes the next request from the stream
SelectRtsp ==
    /\ sel.pc = "select"
    /\ sel.n < MaxEvents
    /\ \E method \in SelectMethods :
         /\ (method = "SETUP" /\ impl = "RaopSession")
              => (sel.task_pc = "none")
         /\ sel' = [sel EXCEPT !.pc = "handle", !.method = method,
                               !.n = @ + 1]
    /\ UNCHANGED <<sessionVars, serveVars, framed, call>>

\* handle_rtsp / handle_request runs up to the await of the send: a
\* successful ANNOUNCE stores a new StreamInfo, RaopSession's SETUP takes
\* the StreamInfo and spawns rtp_loop with it.
SelectHandle ==
    /\ sel.pc = "handle"
    /\ \E ok \in BOOLEAN :
         sel' =
           IF sel.method = "ANNOUNCE" /\ ok
             THEN [sel EXCEPT !.pc = "send", !.info = sel.announces + 1,
                              !.announces = @ + 1]
           ELSE IF /\ sel.method = "SETUP"
                   /\ impl = "RaopSession"
                   /\ sel.info # 0
             THEN [sel EXCEPT !.pc = "send", !.info = 0,
                              !.task_pc = "recv", !.task_info = sel.info]
           ELSE [sel EXCEPT !.pc = "send"]
    /\ UNCHANGED <<sessionVars, serveVars, framed, call>>

\* The response has been written: the loop comes round
SelectSend ==
    /\ sel.pc = "send"
    /\ sel' = [sel EXCEPT !.pc = "select", !.method = NoHeader]
    /\ UNCHANGED <<sessionVars, serveVars, framed, call>>

\* RtspSession's select! takes an RTP packet: handle_rtp reads the
\* session's StreamInfo and tests the payload type
SelectRtp ==
    /\ impl = "RtspSession"
    /\ sel.pc = "select"
    /\ sel.n < MaxEvents
    /\ sel' = IF sel.info = 0
                THEN [sel EXCEPT !.pc = "ended", !.n = @ + 1]
                ELSE [sel EXCEPT !.pc = "rtp_checked", !.use = <<sel.info>>,
                                 !.n = @ + 1]
    /\ UNCHANGED <<sessionVars, serveVars, framed, call>>

\* handle_rtp decrypts and decodes
SelectRtpDecode ==
    /\ sel.pc = "rtp_checked"
    /\ sel' = [sel EXCEPT !.pc = "rtp_decoded", !.use = Append(@, sel.info)]
    /\ UNCHANGED <<sessionVars, serveVars, framed, call>>

\* handle_rtp writes to the sink session and returns to the loop
SelectRtpWrite ==
    /\ sel.pc = "rtp_decoded"
    /\ sel' = [sel EXCEPT !.pc = "select", !.use = Append(@, sel.info)]
    /\ UNCHANGED <<sessionVars, serveVars, framed, call>>

\* RaopSession's rtp_loop receives a datagram and tests the payload type
\* against the StreamInfo it was spawned with
TaskRecv ==
    /\ sel.task_pc = "recv"
    /\ sel.n < MaxEvents
    /\ sel' = [sel EXCEPT !.task_pc = "checked", !.use = <<sel.task_info>>,
                          !.n = @ + 1]
    /\ UNCHANGED <<sessionVars, serveVars, framed, call>>

\* rtp_loop decrypts and decodes
TaskDecode ==
    /\ sel.task_pc = "checked"
    /\ sel' = [sel EXCEPT !.task_pc = "decoded",
                          !.use = Append(@, sel.task_info)]
    /\ UNCHANGED <<sessionVars, serveVars, framed, call>>

\* rtp_loop writes to its sink session and goes back to recv
TaskWrite ==
    /\ sel.task_pc = "decoded"
    /\ sel' = [sel EXCEPT !.task_pc = "recv",
                          !.use = Append(@, sel.task_info)]
    /\ UNCHANGED <<sessionVars, serveVars, framed, call>>

InitSelect ==
    /\ InitProcess
    /\ mdns = "running"
    /\ services = MainServices
    /\ mdns_msg = None
    /\ mdns_out = NoMdnsOut
    /\ sel = SelectStart
    /\ framed = None
    /\ call = None

NextSelect ==
    \/ SelectRtsp
    \/ SelectHandle
    \/ SelectSend
    \/ SelectRtp
    \/ SelectRtpDecode
    \/ SelectRtpWrite
    \/ TaskRecv
    \/ TaskDecode
    \/ TaskWrite

SpecSelect == InitSelect /\ [][NextSelect]_vars

(***************************************************************************)
(* The RTSP decoder, RtspCodec::decode, on the bytes of a TCP stream.      *)
(*                                                                         *)
(* A byte is a one-character string and a byte string a sequence of them.  *)
(* "~" stands for a byte that is not valid UTF-8.                          *)
(***************************************************************************)
CRLF == <<"\r", "\n">>
ContentLength ==
    <<"C", "o", "n", "t", "e", "n", "t", "-", "L", "e", "n", "g", "t", "h">>

\* pat occurs in s at index i
StartsWith(s, i, pat) ==
    /\ i + Len(pat) - 1 <= Len(s)
    /\ \A k \in 1..Len(pat) : s[i + k - 1] = pat[k]

\* The index of the first occurrence of pat in s, 0 if there is none
Position(s, pat) ==
    LET at == {i \in 1..Len(s) : StartsWith(s, i, pat)}
    IN  IF at = {} THEN 0 ELSE CHOOSE i \in at : \A j \in at : i <= j

\* str::split: the pieces of s between the occurrences of pat
RECURSIVE Split(_, _)
Split(s, pat) ==
    LET p == Position(s, pat) IN
      IF p = 0 THEN <<s>>
      ELSE <<SubSeq(s, 1, p - 1)>>
             \o Split(SubSeq(s, p + Len(pat), Len(s)), pat)

\* str::trim
Whitespace == {" ", "\t", "\r", "\n"}
RECURSIVE Trim(_)
Trim(s) ==
    IF s = <<>> THEN s
    ELSE IF s[1] \in Whitespace THEN Trim(Tail(s))
    ELSE IF s[Len(s)] \in Whitespace THEN Trim(SubSeq(s, 1, Len(s) - 1))
    ELSE s

\* str::parse::<usize>: the number, or -1 for Err
Digits == <<"0", "1", "2", "3", "4", "5", "6", "7", "8", "9">>
DigitValue(c) == (CHOOSE d \in DOMAIN Digits : Digits[d] = c) - 1
RECURSIVE DecimalValue(_)
DecimalValue(s) ==
    IF s = <<>> THEN 0
    ELSE DecimalValue(SubSeq(s, 1, Len(s) - 1)) * 10 + DigitValue(s[Len(s)])
ParseUsize(s) ==
    LET digits == IF s # <<>> /\ s[1] = "+" THEN Tail(s) ELSE s IN
      IF digits = <<>> THEN -1
      ELSE IF \E k \in DOMAIN digits :
                \A d \in DOMAIN Digits : Digits[d] # digits[k]
        THEN -1
      ELSE DecimalValue(digits)

\* str::from_utf8
IsUtf8(s) == \A k \in DOMAIN s : s[k] # "~"

\* The value of a header line split on ':': split[1].trim()
HeaderValue(pieces) == Trim(pieces[2])

\* The bytes a yielded request takes from the buffer:
\* src.advance(header_end + content.len())
ConsumedHeaderOnly(header_end, content) == header_end
Consumed(header_end, content) == header_end + Len(content)

\* The headers as the HashMap holds them after every insert: for every key
\* the value of the last line with that key
HeaderMap(lines) ==
    LET keys == {Trim(Split(lines[k], <<":">>)[1]) : k \in 2..Len(lines)}
        lastOf(key) ==
            CHOOSE k \in 2..Len(lines) :
              /\ Trim(Split(lines[k], <<":">>)[1]) = key
              /\ \A l \in 2..Len(lines) :
                   (Trim(Split(lines[l], <<":">>)[1]) = key) => (l <= k)
    IN  [key \in keys |-> HeaderValue(Split(lines[lastOf(key)], <<":">>))]

\* What decode returns and what it leaves in the buffer. kind is "None"
\* (incomplete), "Some" (a request), "Err" or "Panic".
DecodeResult(kind, item, rest) == [kind |-> kind, item |-> item, rest |-> rest]
NoItem == [method |-> <<>>, path |-> <<>>, headers |-> <<>>, content |-> <<>>]

\* RtspCodec::decode
RtspCodecDecode(src) ==
    LET found == Position(src, CRLF \o CRLF) IN
      IF found = 0 THEN DecodeResult("None", NoItem, src)
      ELSE
        LET header_end == found - 1 + 4
            header == SubSeq(src, 1, header_end - 4)
            lines == Split(header, CRLF)
            split == Split(lines[1], <<" ">>)
        IN  IF ~IsUtf8(header) THEN DecodeResult("Err", NoItem, src)
            ELSE IF Len(split) < 3 THEN DecodeResult("Panic", NoItem, src)
            ELSE IF \E k \in 2..Len(lines) :
                      Len(Split(lines[k], <<":">>)) < 2
              THEN DecodeResult("Panic", NoItem, src)
            ELSE
              LET headers == HeaderMap(lines)
                  length == IF ContentLength \in DOMAIN headers
                              THEN ParseUsize(headers[ContentLength])
                              ELSE 0
              IN  IF length < 0 THEN DecodeResult("Err", NoItem, src)
                  ELSE IF Len(src) < header_end + length
                    THEN DecodeResult("None", NoItem, src)
                  ELSE
                    LET content == SubSeq(src, header_end + 1,
                                          header_end + length)
                    IN  DecodeResult("Some",
                          [method |-> split[1], path |-> split[2],
                           headers |-> headers, content |-> content],
                          SubSeq(src, Consumed(header_end, content) + 1,
                                 Len(src)))

\* What a client writes for a request: the request line, the header lines
\* and the blank line, then the body
RECURSIVE Lines(_)
Lines(ls) == IF ls = <<>> THEN <<>> ELSE Head(ls) \o CRLF \o Lines(Tail(ls))
WireOf(frame) ==
    frame.line \o CRLF \o Lines(frame.headers) \o CRLF \o frame.body

\* Requests as clients send them, and frames that are not requests
Frame(line, headers, body) ==
    [line |-> line, headers |-> headers, body |-> body]
WellFormedFrames ==
    { Frame(<<"A", " ", "/", " ", "R">>, <<>>, <<>>),
      Frame(<<"B", " ", "/", " ", "R">>,
            << ContentLength \o <<":", " ", "2">> >>, <<"x", "y">>),
      Frame(<<"C", " ", "/", " ", "R">>,
            << <<"S", ":", "1">>, ContentLength \o <<":", "4">> >>,
            <<"\r", "\n", "\r", "\n">>),
      Frame(<<"D", " ", "/", " ", "R">>,
            << <<"U", ":", " ", "r", ":", "/", "/", "h", ":", "7">> >>,
            <<>>) }
MalformedFrames ==
    { Frame(<<"E", " ", "/", " ", "R">>, << <<"C", "S", "e", "q">> >>, <<>>),
      Frame(<<"F", " ", "/">>, << <<"S", ":", "1">> >>, <<>>),
      Frame(<<"G", " ", "/", " ", "R">>, << <<"S", ":", "~">> >>, <<>>),
      Frame(<<"H", " ", "/", " ", "R">>,
            << ContentLength \o <<":", "x">> >>, <<>>) }
FrameLists ==
    LET frames == WellFormedFrames \cup MalformedFrames IN
      {<<f>> : f \in frames} \cup {<<f, g>> : f \in WellFormedFrames,
                                               g \in frames}

RECURSIVE WireOfAll(_)
WireOfAll(frames) ==
    IF frames = <<>> THEN <<>>
    ELSE WireOf(Head(frames)) \o WireOfAll(Tail(frames))

\* The stream is read one chunk at a time into the buffer; Framed then
\* calls decode until it returns None. An Err or a panic ends it.
NoDecodeCall == [kind |-> NoHeader, before |-> <<>>, after |-> <<>>]
FramedStart(frames) ==
    [frames |-> frames, wire |-> WireOfAll(frames), read |-> 0,
     buf |-> <<>>, readable |-> FALSE, out |-> <<>>, status |-> "open",
     last |-> NoDecodeCall]

FramedRead ==
    /\ framed # None
    /\ framed.status = "open"
    /\ ~framed.readable
    /\ framed.read < Len(framed.wire)
    /\ \E n \in 1..(Len(framed.wire) - framed.read) :
         framed' = [framed EXCEPT
                      !.buf = @ \o SubSeq(framed.wire, framed.read + 1,
                                          framed.read + n),
                      !.read = @ + n,
                      !.readable = TRUE,
                      !.last = NoDecodeCall]
    /\ UNCHANGED <<sessionVars, serveVars, sel, call>>

FramedDecode ==
    /\ framed # None
    /\ framed.status = "open"
    /\ framed.readable
    /\ \E r \in {RtspCodecDecode(framed.buf)} :
         framed' = [framed EXCEPT
                      !.buf = r.rest,
                      !.readable = (r.kind = "Some"),
                      !.out = IF r.kind = "Some" THEN Append(@, r.item)
                              ELSE @,
                      !.status = CASE r.kind = "Err" -> "returned_err"
                                   [] r.kind = "Panic" -> "panicked"
                                   [] OTHER -> "open",
                      !.last = [kind |-> r.kind, before |-> framed.buf,
                                after |-> r.rest]]
    /\ UNCHANGED <<sessionVars, serveVars, sel, call>>

InitRtspCodec ==
    /\ InitProcess
    /\ mdns = "running"
    /\ services = MainServices
    /\ mdns_msg = None
    /\ mdns_out = NoMdnsOut
    /\ sel = None
    /\ \E frames \in FrameLists : framed = FramedStart(frames)
    /\ call = None

NextRtspCodec ==
    \/ FramedRead
    \/ FramedDecode

SpecRtspCodec == InitRtspCodec /\ [][NextRtspCodec]_vars

(***************************************************************************)
(* The RTP decoder, RtpCodec::decode, on one datagram. A byte is a number  *)
(* in 0..255. RtpReader is the rtp-rs reader the decoder hands the         *)
(* datagram to; it is modelled by the checks of RtpReader::new in the      *)
(* order it makes them, over the RFC 3550 header.                          *)
(***************************************************************************)
MinHeaderLen == 12
ExtensionHeaderLen == 4

version(b) == b[1] \div 64
padding_flag(b) == (b[1] \div 32) % 2 = 1
extension_flag(b) == (b[1] \div 16) % 2 = 1
csrc_count(b) == b[1] % 16
payload_type_with_marker(b) == b[2]
payload_type(b) == b[2] % 128
csrc_end(b) == MinHeaderLen + 4 * csrc_count(b)
\* the extension's length in bytes, from its 16-bit count of 32-bit words
extension_len(b) == 4 * (b[csrc_end(b) + 3] * 256 + b[csrc_end(b) + 4])
payload_offset(b) ==
    IF extension_flag(b)
      THEN csrc_end(b) + ExtensionHeaderLen + extension_len(b)
      ELSE csrc_end(b)
padding_length(b) == b[Len(b)]

\* RtpReader::new: the error it returns, or "Ok"
RtpReaderNew(b) ==
    IF Len(b) < MinHeaderLen THEN "BufferTooShort"
    ELSE IF version(b) # 2 THEN "UnsupportedVersion"
    ELSE IF extension_flag(b) /\ csrc_end(b) + ExtensionHeaderLen > Len(b)
      THEN "HeadersTruncated"
    ELSE IF payload_offset(b) > Len(b) THEN "HeadersTruncated"
    ELSE IF ~padding_flag(b) THEN "Ok"
    ELSE IF Len(b) = payload_offset(b) THEN "HeadersTruncated"
    ELSE IF padding_length(b) = 0 THEN "PaddingLengthInvalid"
    ELSE IF payload_offset(b) + padding_length(b) > Len(b)
      THEN "PaddingLengthInvalid"
    ELSE "Ok"

\* RtpReader::payload: the bytes after the headers and before the padding
payload(b) ==
    SubSeq(b, payload_offset(b) + 1,
           Len(b) - (IF padding_flag(b) THEN padding_length(b) ELSE 0))

NoRtpPacket == [payload_type |-> 0, payload |-> <<>>]

\* RtpCodec::decode
RtpCodecDecode(src) ==
    LET reader == RtpReaderNew(src) IN
      CASE reader \in {"BufferTooShort", "HeadersTruncated",
                       "PaddingLengthInvalid"} ->
             DecodeResult("None", NoRtpPacket, src)
        [] reader = "UnsupportedVersion" ->
             DecodeResult("Err", NoRtpPacket, src)
        [] OTHER ->
             LET length == payload_offset(src) + Len(payload(src)) IN
               DecodeResult("Some",
                            [payload_type |-> payload_type(src),
                             payload |-> payload(src)],
                            SubSeq(src, length + 1, Len(src)))

\* Datagrams as a sender builds them from the fields of the header, and
\* every truncation of them
RtpFields ==
    [version : {1, 2}, marker : {0, 1}, pt : {96, 127},
     csrc : {<<>>, <<0, 0, 0, 9>>},
     extension : {<<>>, <<190, 222, 0, 0>>, <<190, 222, 0, 1, 5, 6, 7, 8>>},
     payload : {<<>>, <<3>>, <<17, 0, 200>>},
     padding : {<<>>, <<1>>, <<0, 2>>, <<0>>, <<0, 0, 30>>}]
RtpWire(f) ==
    << f.version * 64 + (IF f.padding # <<>> THEN 32 ELSE 0)
         + (IF f.extension # <<>> THEN 16 ELSE 0) + Len(f.csrc) \div 4,
       f.marker * 128 + f.pt,
       0, 1, 0, 0, 0, 160, 18, 52, 86, 120 >>
      \o f.csrc \o f.extension \o f.payload \o f.padding
RtpHeaderLen(f) == MinHeaderLen + Len(f.csrc) + Len(f.extension)
\* the last byte of the padding counts the padding
ValidPadding(f) ==
    f.padding = <<>> \/ f.padding[Len(f.padding)] = Len(f.padding)

\* A call that is still to be made, and the call once it has returned
Pending(fn, fields, input) ==
    [fn |-> fn, fields |-> fields, input |-> input, done |-> FALSE,
     output |-> None]
Returned(fn) == call # None /\ call.fn = fn /\ call.done

RtpDecodeCall ==
    /\ call # None
    /\ call.fn = "RtpCodec::decode"
    /\ ~call.done
    /\ call' = [call EXCEPT !.done = TRUE,
                            !.output = RtpCodecDecode(call.input)]
    /\ UNCHANGED <<sessionVars, serveVars, sel, framed>>

InitRtpCodec ==
    /\ InitProcess
    /\ mdns = "running"
    /\ services = MainServices
    /\ mdns_msg = None
    /\ mdns_out = NoMdnsOut
    /\ sel = None
    /\ framed = None
    /\ \E f \in RtpFields : \E n \in 0..Len(RtpWire(f)) :
         call = Pending("RtpCodec::decode", f, SubSeq(RtpWire(f), 1, n))

NextRtpCodec == RtpDecodeCall

SpecRtpCodec == InitRtpCodec /\ [][NextRtpCodec]_vars

(***************************************************************************)
(* The packet cipher, RsaAesCipher. The stored cipher is a CBC decryptor:  *)
(* a key and the chaining value, which starts as the IV.  AES itself, the  *)
(* aes crate, is stood for by a keyed permutation of 16-byte blocks: what  *)
(* is modelled from the source is the chaining over the blocks of a packet *)
(* and what happens to the stored cipher.                                  *)
(***************************************************************************)
BlockSize == 16

RECURSIVE Xor(_, _)
Xor(a, b) ==
    IF a = 0 THEN b
    ELSE IF b = 0 THEN a
    ELSE (((a % 2) + (b % 2)) % 2) + 2 * Xor(a \div 2, b \div 2)
XorBlock(x, y) == [i \in 1..BlockSize |-> Xor(x[i], y[i])]

\* The block permutation under a key, and its inverse
Aes128EncryptBlock(key, block) ==
    [i \in 1..BlockSize |-> (block[BlockSize + 1 - i] + key[i]) % 256]
Aes128DecryptBlock(key, block) ==
    [i \in 1..BlockSize |->
       (block[BlockSize + 1 - i] + 256 - key[BlockSize + 1 - i]) % 256]

\* RsaAesCipher::new: Decryptor::new_from_slices(&aeskey, aesiv)
RsaAesCipherNew(aeskey, aesiv) == [key |-> aeskey, iv |-> aesiv]

\* chunks_exact_mut(16).for_each(decrypt_block_mut) with the cipher given:
\* the bytes after it, and the cipher after it
RECURSIVE DecryptBlocks(_, _)
DecryptBlocks(cipher, raw) ==
    IF Len(raw) < BlockSize THEN [out |-> raw, cipher |-> cipher]
    ELSE
      LET block == SubSeq(raw, 1, BlockSize)
          plain == XorBlock(Aes128DecryptBlock(cipher.key, block), cipher.iv)
          rest == DecryptBlocks([cipher EXCEPT !.iv = block],
                                SubSeq(raw, BlockSize + 1, Len(raw)))
      IN  [out |-> plain \o rest.out, cipher |-> rest.cipher]

\* RsaAesCipher::decrypt: the decrypted bytes, and the cipher the session
\* holds after the call
decrypt_stored_cipher(self, raw) ==
    [out |-> DecryptBlocks(self, raw).out,
     self |-> DecryptBlocks(self, raw).cipher]
decrypt(self, raw) ==
    [out |-> DecryptBlocks(self, raw).out, self |-> self]

\* What the sender does: CBC encryption of the whole blocks of a packet
\* from the IV, the bytes after the last whole block in the clear
RECURSIVE EncryptBlocks(_, _, _)
EncryptBlocks(key, chain, plain) ==
    IF Len(plain) < BlockSize THEN plain
    ELSE
      LET block == Aes128EncryptBlock(key,
                     XorBlock(SubSeq(plain, 1, BlockSize), chain))
      IN  block \o EncryptBlocks(key, block,
                                 SubSeq(plain, BlockSize + 1, Len(plain)))

AesKeys == {[i \in 1..BlockSize |-> i], [i \in 1..BlockSize |-> 250 - 9 * i]}
AesIvs == {[i \in 1..BlockSize |-> 0], [i \in 1..BlockSize |-> 185 + 2 * i]}
BlockA == [i \in 1..BlockSize |-> 32 + i]
BlockB == [i \in 1..BlockSize |-> 255 - 3 * i]
Plaintexts ==
    {blocks \o tail : blocks \in {<<>>, BlockA, BlockB, BlockA \o BlockB},
                      tail \in {<<>>, <<7, 8, 9>>}}

CipherDecryptCall ==
    /\ call # None
    /\ call.fn = "RsaAesCipher::decrypt"
    /\ ~call.done
    /\ \E r \in {decrypt(call.output.cipher,
                          call.input[Len(call.output.outs) + 1])} :
         call' = [call EXCEPT
                    !.output = [cipher |-> r.self,
                                outs |-> Append(call.output.outs, r.out)],
                    !.done = (Len(call.output.outs) + 1 = Len(call.input))]
    /\ UNCHANGED <<sessionVars, serveVars, sel, framed>>

InitCipher ==
    /\ InitProcess
    /\ mdns = "running"
    /\ services = MainServices
    /\ mdns_msg = None
    /\ mdns_out = NoMdnsOut
    /\ sel = None
    /\ framed = None
    /\ \E key \in AesKeys, iv \in AesIvs, pkt_a \in Plaintexts,
          pkt_b \in Plaintexts :
         call = [fn |-> "RsaAesCipher::decrypt",
                 fields |-> [key |-> key, iv |-> iv,
                             plain |-> <<pkt_a, pkt_b>>],
                 input |-> <<EncryptBlocks(key, iv, pkt_a),
                             EncryptBlocks(key, iv, pkt_b)>>,
                 done |-> FALSE,
                 output |-> [cipher |-> RsaAesCipherNew(key, iv),
                             outs |-> <<>>]]

NextCipher == CipherDecryptCall

SpecCipher == InitCipher /\ [][NextCipher]_vars

(***************************************************************************)
(* The mDNS packet on the wire: Packet::write and Packet::parse over       *)
(* bytes. A byte is a number in 0..255, a label a sequence of bytes and a  *)
(* name a sequence of labels. A read leaves the cursor, the count of bytes *)
(* consumed, after what it read; a read past the end of the buffer is an   *)
(* index out of range, a panic.                                            *)
(***************************************************************************)
U16(v) == <<(v \div 256) % 256, v % 256>>
U32(v) == U16(v \div 65536) \o U16(v % 65536)
Read(kind, value, cursor) ==
    [kind |-> kind, value |-> value, cursor |-> cursor]
\* the one value of a set of one: a result is worked out once and named
Only(S) == CHOOSE x \in S : TRUE
OutOfRange == Read("Panic", <<>>, 0)

\* ReadStream::read_u16
read_u16(buf, cursor) ==
    IF cursor + 2 > Len(buf) THEN OutOfRange
    ELSE Read("Ok", buf[cursor + 1] * 256 + buf[cursor + 2], cursor + 2)

\* ReadStream::read
read(buf, cursor, length) ==
    IF cursor + length > Len(buf) THEN OutOfRange
    ELSE Read("Ok", SubSeq(buf, cursor + 1, cursor + length), cursor + length)

\* str::from_utf8 on the bytes of a label: the labels here are ASCII
IsAscii(bytes) == \A k \in DOMAIN bytes : bytes[k] < 128

\* The offset a pointer names: (length << 8 | offset_byte) & !49152
PointerOffsetUnmasked(length, offset_byte) == length * 256 + offset_byte
PointerOffset(length, offset_byte) == (length * 256 + offset_byte) % 16384

\* Name::parse. A pointer is followed by a call of Name::parse at its
\* offset, and nothing remembers the pointers already followed: a pointer
\* that is met again inside the calls it started is met again without end,
\* one call deeper each time, until the stack is used up. "Overflow" is
\* that outcome: the call returns neither a name nor an error.
RECURSIVE NameParseFrom(_, _, _)
NameParseFrom(buf, cursor, followed) ==
    IF cursor + 1 > Len(buf) THEN OutOfRange
    ELSE IF buf[cursor + 1] = 0 THEN Read("Ok", <<>>, cursor + 1)
    ELSE IF buf[cursor + 1] >= 192
      THEN IF cursor + 2 > Len(buf) THEN OutOfRange
           ELSE IF cursor \in followed THEN Read("Overflow", <<>>, 0)
           ELSE Only({ IF result.kind # "Ok" THEN result
                       ELSE Read("Ok", result.value, cursor + 2) :
                       result \in {NameParseFrom(buf,
                                      PointerOffset(buf[cursor + 1],
                                                    buf[cursor + 2]),
                                      followed \cup {cursor})} })
    ELSE Only({ IF label.kind # "Ok" THEN label
                ELSE IF ~IsAscii(label.value) THEN Read("Err", <<>>, 0)
                ELSE Only({ IF rest.kind # "Ok" THEN rest
                            ELSE Read("Ok", <<label.value>> \o rest.value,
                                      rest.cursor) :
                            rest \in {NameParseFrom(buf, label.cursor,
                                                    followed)} }) :
                label \in {read(buf, cursor + 1, buf[cursor + 1])} })
NameParse(buf, cursor) == NameParseFrom(buf, cursor, {})

\* Name::write: every label with its length, then a zero
RECURSIVE NameWrite(_)
NameWrite(labels) ==
    IF labels = <<>> THEN <<0>>
    ELSE <<Len(Head(labels)) % 256>> \o Head(labels) \o NameWrite(Tail(labels))

\* ResourceType::write, for the types it can write
ResourceTypeWrite(type) ==
    CASE type = "A" -> U16(1)
      [] type = "PTR" -> U16(12)
      [] type = "TXT" -> U16(16)
      [] type = "AAAA" -> U16(28)
      [] type = "SRV" -> U16(33)

\* Class::parse and Class::write
ClassIn == 1
ClassInWithCacheFlush == 32769
ClassParse(raw) == IF raw % 32768 = ClassIn THEN "IN" ELSE "Unknown"
ClassWrite(class) == U16(ClassInWithCacheFlush)

\* Question::parse
QuestionParseBytes(buf, cursor) ==
    Only({ IF name.kind # "Ok" THEN name
           ELSE
             LET type == read_u16(buf, name.cursor)
                 class == read_u16(buf, name.cursor + 2)
             IN  IF class.kind # "Ok" THEN OutOfRange
                 ELSE Read("Ok",
                           [name |-> name.value,
                            type |-> ResourceTypeParse(type.value),
                            class |-> ClassParse(class.value),
                            unicast |-> class.value >= 32768],
                           class.cursor) :
           name \in {NameParse(buf, cursor)} })

\* Question::write
QuestionWrite(question) ==
    NameWrite(question.name) \o ResourceTypeWrite(question.type)
      \o ClassWrite(question.class)

\* The strings of a TXT record: one is read before the end is looked at
RECURSIVE TxtParse(_, _, _)
TxtParse(buf, cursor, end) ==
    IF cursor + 1 > Len(buf) THEN OutOfRange
    ELSE
      Only({ IF item.kind # "Ok" THEN item
             ELSE IF ~IsAscii(item.value) THEN Read("Err", <<>>, 0)
             ELSE IF item.cursor = end
               THEN Read("Ok", <<item.value>>, item.cursor)
             ELSE Only({ IF rest.kind # "Ok" THEN rest
                         ELSE Read("Ok", <<item.value>> \o rest.value,
                                   rest.cursor) :
                         rest \in {TxtParse(buf, item.cursor, end)} }) :
             item \in {read(buf, cursor + 1, buf[cursor + 1])} })

\* ResourceRecordData::parse
ResourceRecordDataParse(type, buf, cursor) ==
    LET length == read_u16(buf, cursor) IN
      IF length.kind # "Ok" THEN OutOfRange
      ELSE
        CASE type = "A" ->
               LET ip == read(buf, length.cursor, 4) IN
                 IF ip.kind # "Ok" THEN ip
                 ELSE Read("Ok", [type |-> "A", ip |-> ip.value], ip.cursor)
          [] type = "AAAA" ->
               LET ip == read(buf, length.cursor, 16) IN
                 IF ip.kind # "Ok" THEN ip
                 ELSE Read("Ok", [type |-> "AAAA", ip |-> ip.value], ip.cursor)
          [] type = "PTR" ->
               LET name == NameParse(buf, length.cursor) IN
                 IF name.kind # "Ok" THEN name
                 ELSE Read("Ok", [type |-> "PTR", name |-> name.value],
                           name.cursor)
          [] type = "TXT" ->
               LET txt == TxtParse(buf, length.cursor,
                                   length.cursor + length.value)
               IN  IF txt.kind # "Ok" THEN txt
                   ELSE Read("Ok", [type |-> "TXT", txt |-> txt.value],
                             txt.cursor)
          [] type = "SRV" ->
               LET priority == read_u16(buf, length.cursor)
                   weight == read_u16(buf, length.cursor + 2)
                   port == read_u16(buf, length.cursor + 4)
               IN  IF port.kind # "Ok" THEN OutOfRange
                   ELSE
                     LET target == NameParse(buf, port.cursor) IN
                       IF target.kind # "Ok" THEN target
                       ELSE Read("Ok",
                                 [type |-> "SRV", priority |-> priority.value,
                                  weight |-> weight.value,
                                  port |-> port.value,
                                  target |-> target.value],
                                 target.cursor)
          [] OTHER ->
               LET data == read(buf, length.cursor, length.value) IN
                 IF data.kind # "Ok" THEN data
                 ELSE Read("Ok", [type |-> "Unknown", data |-> data.value],
                           data.cursor)

\* ResourceRecordData::write: the length of the data, then the data
RECURSIVE TxtWrite(_)
TxtWrite(txt) ==
    IF txt = <<>> THEN <<>>
    ELSE <<Len(Head(txt)) % 256>> \o Head(txt) \o TxtWrite(Tail(txt))
ResourceRecordDataWrite(data) ==
    LET new_stream ==
          CASE data.type \in {"A", "AAAA"} -> data.ip
            [] data.type = "PTR" -> NameWrite(data.name)
            [] data.type = "TXT" -> TxtWrite(data.txt)
            [] data.type = "SRV" ->
                 U16(data.priority) \o U16(data.weight) \o U16(data.port)
                   \o NameWrite(data.target)
            [] OTHER -> data.data
    IN  U16(Len(new_stream)) \o new_stream

\* ResourceRecord::parse
ResourceRecordParse(buf, cursor) ==
    Only({ IF name.kind # "Ok" THEN name
           ELSE
             LET type == read_u16(buf, name.cursor)
                 class == read_u16(buf, name.cursor + 2)
                 ttl == read(buf, name.cursor + 4, 4)
             IN  IF ttl.kind # "Ok" THEN OutOfRange
                 ELSE
                   Only({ IF data.kind # "Ok" THEN data
                          ELSE Read("Ok",
                                    [name |-> name.value,
                                     class |-> ClassParse(class.value),
                                     ttl |-> ttl.value, data |-> data.value],
                                    data.cursor) :
                          data \in {ResourceRecordDataParse(
                                      ResourceTypeParse(type.value), buf,
                                      name.cursor + 8)} }) :
           name \in {NameParse(buf, cursor)} })

\* ResourceRecord::write
ResourceRecordWrite(record) ==
    NameWrite(record.name) \o ResourceTypeWrite(record.data.type)
      \o ClassWrite(record.class) \o record.ttl
      \o ResourceRecordDataWrite(record.data)

\* count items of a section, one after another
RECURSIVE SectionParse(_, _, _, _)
SectionParse(questions, buf, cursor, count) ==
    IF count = 0 THEN Read("Ok", <<>>, cursor)
    ELSE
      Only({ IF item.kind # "Ok" THEN item
             ELSE Only({ IF rest.kind # "Ok" THEN rest
                         ELSE Read("Ok", <<item.value>> \o rest.value,
                                   rest.cursor) :
                         rest \in {SectionParse(questions, buf, item.cursor,
                                                count - 1)} }) :
             item \in {IF questions THEN QuestionParseBytes(buf, cursor)
                       ELSE ResourceRecordParse(buf, cursor)} })

\* Packet::parse. The header is the first twelve bytes as they are.
HeaderSize == 12
PacketParseBytes(raw) ==
    IF Len(raw) < HeaderSize THEN Read("Err", <<>>, 0)
    ELSE
      LET header == [id |-> raw[1] * 256 + raw[2],
                     flags |-> <<raw[3], raw[4]>>,
                     qd_count |-> raw[5] * 256 + raw[6],
                     an_count |-> raw[7] * 256 + raw[8],
                     ns_count |-> raw[9] * 256 + raw[10],
                     ar_count |-> raw[11] * 256 + raw[12]]
      IN
      Only({ IF qd.kind # "Ok" THEN qd ELSE
      Only({ IF an.kind # "Ok" THEN an ELSE
      Only({ IF ns.kind # "Ok" THEN ns ELSE
      Only({ IF ar.kind # "Ok" THEN ar
             ELSE Read("Ok",
                       [header |-> header, questions |-> qd.value,
                        answers |-> an.value, nameservers |-> ns.value,
                        additionals |-> ar.value],
                       ar.cursor) :
        ar \in {SectionParse(FALSE, raw, ns.cursor, header.ar_count)} }) :
        ns \in {SectionParse(FALSE, raw, an.cursor, header.ns_count)} }) :
        an \in {SectionParse(FALSE, raw, qd.cursor, header.an_count)} }) :
        qd \in {SectionParse(TRUE, raw, HeaderSize, header.qd_count)} })

\* Packet::new_response with the header as it lies in memory: RESPONSE is
\* the top bit of the first byte of the flags
ResponseFlags == <<128, 0>>
NewResponseBytes(packet_id, questions, answers, nameservers, additionals) ==
    [header |-> [id |-> packet_id, flags |-> ResponseFlags,
                 qd_count |-> Len(questions), an_count |-> Len(answers),
                 ns_count |-> Len(nameservers),
                 ar_count |-> Len(additionals)],
     questions |-> questions, answers |-> answers,
     nameservers |-> nameservers, additionals |-> additionals]

\* ResourceType::write and Class::write panic on Unknown
RECURSIVE SectionWrite(_, _)
SectionWrite(questions, items) ==
    IF items = <<>> THEN <<>>
    ELSE (IF questions THEN QuestionWrite(Head(items))
          ELSE ResourceRecordWrite(Head(items)))
           \o SectionWrite(questions, Tail(items))
Writable(packet) ==
    /\ \A k \in DOMAIN packet.questions :
         /\ packet.questions[k].type # "Unknown"
         /\ packet.questions[k].class # "Unknown"
    /\ \A records \in {packet.answers, packet.nameservers,
                        packet.additionals} :
         \A k \in DOMAIN records :
           /\ records[k].data.type # "Unknown"
           /\ records[k].class # "Unknown"

\* Packet::write
PacketWrite(packet) ==
    IF ~Writable(packet) THEN [kind |-> "Panic", bytes |-> <<>>]
    ELSE [kind |-> "Ok",
          bytes |->
            U16(packet.header.id) \o packet.header.flags
              \o U16(packet.header.qd_count) \o U16(packet.header.an_count)
              \o U16(packet.header.ns_count) \o U16(packet.header.ar_count)
              \o SectionWrite(TRUE, packet.questions)
              \o SectionWrite(FALSE, packet.answers)
              \o SectionWrite(FALSE, packet.nameservers)
              \o SectionWrite(FALSE, packet.additionals)]

\* Names, as labels of bytes: _raop._tcp.local, ras@host, ras-host.local
LabelRaop == <<95, 114, 97, 111, 112>>
LabelTcp == <<95, 116, 99, 112>>
LabelLocal == <<108, 111, 99, 97, 108>>
LabelService == <<114, 97, 115, 64, 104, 111, 115, 116>>
LabelHost == <<114, 97, 115, 45, 104, 111, 115, 116>>
WireNames ==
    {<<LabelRaop, LabelTcp, LabelLocal>>, <<LabelHost, LabelLocal>>}
WireTxts == {<<>>, << <<116, 112, 61, 85, 68, 80>>, <<99, 104, 61, 50>> >>}
Ttl3600 == U32(3600)

\* The packets the responder builds for a service (create_response), with
\* and without the question echoed
ResponsePackets ==
    { NewResponseBytes(packet_id, questions,
        << [name |-> type, class |-> "IN", ttl |-> Ttl3600,
            data |-> [type |-> "PTR", name |-> <<LabelService>>]] >>,
        <<>>,
        << [name |-> <<LabelService>>, class |-> "IN", ttl |-> Ttl3600,
            data |-> [type |-> "SRV", priority |-> 0, weight |-> 0,
                      port |-> port, target |-> <<LabelHost, LabelLocal>>]] >>
          \o (IF txt # <<>>
                THEN << [name |-> <<LabelService>>, class |-> "IN",
                         ttl |-> Ttl3600,
                         data |-> [type |-> "TXT", txt |-> txt]] >>
                ELSE <<>>)
          \o << [name |-> <<LabelHost, LabelLocal>>, class |-> "IN",
                  ttl |-> Ttl3600,
                  data |-> [type |-> "A", ip |-> ip]] >>) :
        packet_id \in {0, 1573}, type \in WireNames, port \in {5000, 1234},
        txt \in WireTxts, ip \in {<<192, 168, 1, 1>>, <<10, 0, 0, 2>>},
        questions \in {<<>>,
                       << [name |-> <<LabelRaop, LabelTcp, LabelLocal>>,
                           type |-> "PTR", class |-> "IN",
                           unicast |-> FALSE] >>} }

\* The bytes of a query as a client sends it, the names uncompressed: the
\* class is 1 and its top bit asks for a unicast response
WireQuestions ==
    [name : WireNames, type : {1, 12, 255}, class : {1, 32769}]
RECURSIVE WireQuestionBytes(_)
WireQuestionBytes(questions) ==
    IF questions = <<>> THEN <<>>
    ELSE NameWrite(Head(questions).name) \o U16(Head(questions).type)
           \o U16(Head(questions).class)
           \o WireQuestionBytes(Tail(questions))
QueryBytes(packet_id, questions) ==
    U16(packet_id) \o <<0, 0>> \o U16(Len(questions)) \o U16(0) \o U16(0)
      \o U16(0) \o WireQuestionBytes(questions)
WireQuestionLists ==
    {<<q>> : q \in WireQuestions} \cup {<<p, q>> : p, q \in WireQuestions}

\* A packet is written and the bytes are parsed
PacketWriteCall ==
    /\ call # None
    /\ call.fn = "Packet::write"
    /\ ~call.done
    /\ \E written \in {PacketWrite(call.input)} :
         call' = [call EXCEPT
                    !.done = TRUE,
                    !.output = [written |-> written,
                                parsed |-> PacketParseBytes(written.bytes)]]
    /\ UNCHANGED <<sessionVars, serveVars, sel, framed>>

\* Bytes are parsed and the packet is written back
PacketParseCall ==
    /\ call # None
    /\ call.fn = "Packet::parse"
    /\ ~call.done
    /\ \E parsed \in {PacketParseBytes(call.input)} :
         call' = [call EXCEPT
                    !.done = TRUE,
                    !.output = [parsed |-> parsed,
                                written |-> IF parsed.kind = "Ok"
                                              THEN PacketWrite(parsed.value)
                                              ELSE [kind |-> "None",
                                                    bytes |-> <<>>]]]
    /\ UNCHANGED <<sessionVars, serveVars, sel, framed>>

\* Queries of two questions with a compression pointer in a name, and the
\* same queries with the labels written out. "back": the second name ends
\* in a pointer into the first; "forward": the first name ends in a
\* pointer into the second; "self": a name ends in a pointer to its own
\* start; "cycle": each name is a pointer to the other.
NamePointerCases ==
    LET Labels(labels) == SubSeq(NameWrite(labels), 1,
                                 Len(NameWrite(labels)) - 1)
        Pointer(offset) == <<192 + offset \div 256, offset % 256>>
        Header == U16(1573) \o <<0, 0>> \o U16(2) \o U16(0) \o U16(0)
                    \o U16(0)
        Tail2(t, c) == U16(t) \o U16(c)
        From(name, k) == SubSeq(name, k, Len(name))
        Before(name, k) == Len(Labels(SubSeq(name, 1, k - 1)))
        Case(kind, prefix, name, k, t, c, bytes) ==
            [fields |-> [kind |-> kind, types |-> t, class |-> c,
                         names |-> IF kind = "back"
                                     THEN <<name, prefix \o From(name, k)>>
                                     ELSE <<prefix \o From(name, k), name>>],
             input |->
               [bytes |-> Header \o bytes,
                expanded |->
                  Header
                    \o (IF kind = "back"
                          THEN NameWrite(name) \o Tail2(t[1], c)
                                 \o NameWrite(prefix \o From(name, k))
                                 \o Tail2(t[2], c)
                          ELSE NameWrite(prefix \o From(name, k))
                                 \o Tail2(t[1], c) \o NameWrite(name)
                                 \o Tail2(t[2], c))]]
    IN  UNION {
          { Case("back", prefix, name, k, t, c,
                 NameWrite(name) \o Tail2(t[1], c) \o Labels(prefix)
                   \o Pointer(HeaderSize + Before(name, k))
                   \o Tail2(t[2], c)),
            Case("forward", prefix, name, k, t, c,
                 Labels(prefix)
                   \o Pointer(HeaderSize + Len(Labels(prefix)) + 6
                                + Before(name, k))
                   \o Tail2(t[1], c) \o NameWrite(name)
                   \o Tail2(t[2], c)),
            Case("self", prefix, name, k, t, c,
                 Labels(prefix) \o Pointer(HeaderSize) \o Tail2(t[1], c)
                   \o NameWrite(name) \o Tail2(t[2], c)),
            Case("cycle", prefix, name, k, t, c,
                 Pointer(HeaderSize + 6) \o Tail2(t[1], c)
                   \o Pointer(HeaderSize) \o Tail2(t[2], c)) } :
          prefix \in {<<>>, <<LabelService>>}, name \in WireNames,
          k \in 1..2, t \in {<<12, 1>>, <<1, 12>>}, c \in {1, 32769} }

\* The names of a query are parsed, those of the same query with the
\* labels written out too
NameParseCall ==
    /\ call # None
    /\ call.fn = "Name::parse"
    /\ ~call.done
    /\ call' = [call EXCEPT
                  !.done = TRUE,
                  !.output =
                    [compressed |-> PacketParseBytes(call.input.bytes),
                     expanded |-> PacketParseBytes(call.input.expanded)]]
    /\ UNCHANGED <<sessionVars, serveVars, sel, framed>>

\* Datagrams that are not whole packets: a query cut short at every
\* length, counts that announce more than is there, a label and the data
\* of a record that run past the end, a pointer to an offset outside
MalformedDatagrams ==
    LET Header(qd, an) == U16(7) \o <<0, 0>> \o U16(qd) \o U16(an)
                            \o U16(0) \o U16(0)
        Question == NameWrite(<<LabelRaop, LabelTcp, LabelLocal>>)
                      \o U16(12) \o U16(1)
        Case(kind, bytes) == [fields |-> kind, input |-> bytes]
    IN  {Case("truncated", SubSeq(Header(1, 0) \o Question, 1, n)) :
           n \in 0..(HeaderSize + Len(Question) - 1)}
        \cup {Case("counts", Header(2, 0) \o Question),
              Case("counts", Header(1, 1) \o Question),
              Case("label", Header(1, 0) \o <<40, 95, 114>>),
              Case("rdlength",
                   Header(0, 1) \o NameWrite(<<LabelLocal>>) \o U16(47)
                     \o U16(1) \o U32(120) \o U16(200) \o <<1, 2, 3>>),
              Case("pointer",
                   Header(1, 0) \o <<255, 255>> \o U16(12) \o U16(1))}

\* Server::serve on one datagram, as far as Packet::parse in
\* handle_packet: an Err makes handle_packet return None and the loop
\* goes round, a panic unwinds the task serve runs in
ServeDatagramCall ==
    /\ call # None
    /\ call.fn = "Server::serve"
    /\ ~call.done
    /\ \E parsed \in {PacketParseBytes(call.input)} :
         call' = [call EXCEPT
                    !.done = TRUE,
                    !.output =
                      [parsed |-> parsed,
                       task |-> CASE parsed.kind \in {"Ok", "Err"} -> "running"
                                  [] parsed.kind = "Panic" -> "panicked"
                                  [] OTHER -> "aborted"]]
    /\ UNCHANGED <<sessionVars, serveVars, sel, framed>>

InitPacket ==
    /\ InitProcess
    /\ mdns = "running"
    /\ services = MainServices
    /\ mdns_msg = None
    /\ mdns_out = NoMdnsOut
    /\ sel = None
    /\ framed = None
    /\ \/ \E packet \in ResponsePackets :
            call = Pending("Packet::write", packet.header, packet)
       \/ \E packet_id \in {0, 1573}, questions \in WireQuestionLists :
            call = Pending("Packet::parse", questions,
                           QueryBytes(packet_id, questions))
       \/ \E case \in NamePointerCases :
            call = Pending("Name::parse", case.fields, case.input)
       \/ \E case \in MalformedDatagrams :
            call = Pending("Server::serve", case.fields, case.input)

NextPacket ==
    \/ PacketWriteCall
    \/ PacketParseCall
    \/ NameParseCall
    \/ ServeDatagramCall

SpecPacket == InitPacket /\ [][NextPacket]_vars

(***************************************************************************)
(* The claims.                                                             *)
(***************************************************************************)

\* C1: every response a session sends carries the request's CSeq verbatim,
\* whenever the request had one, and the header Server: ras/0.1, whatever
\* the method, the state and the handler's outcome.
C1_ResponseCarriesCSeqAndServer ==
    last_res.sent =>
      LET request == last_req.req
          headers == last_res.res.headers
      IN  /\ (request.cseq # NoHeader) =>
                (Has(headers, "CSeq") /\ headers["CSeq"] = request.cseq)
          /\ Has(headers, "Server")
          /\ headers["Server"] = "ras/0.1"

\* C2: when a handler returns an error, the request is answered 500 with
\* the request's CSeq, and the session goes on running.
C2_HandlerErrorIs500WithCSeq ==
    (last_res.raised /\ last_res.sent) =>
      LET request == last_req.req
          headers == last_res.res.headers
      IN  /\ last_res.res.status = StatusInternalServerError
          /\ (request.cseq # NoHeader) =>
                (Has(headers, "CSeq") /\ headers["CSeq"] = request.cseq)
          /\ Running

\* C3: a SETUP handled before any ANNOUNCE has succeeded is answered 400,
\* names no ports and leaves the session as it was: no StreamInfo, no
\* socket bound for it, no RTP task.
C3_SetupInNewIsBadRequest ==
    (last_req.req.method = "SETUP" /\ last_req.new /\ last_res.sent) =>
      /\ last_res.res.status = StatusBadRequest
      /\ ~Has(last_res.res.headers, "Transport")
      /\ stream_info = None
      /\ rtp_tasks = <<>>

\* C4: once a TEARDOWN has been handled the session is closed: its task is
\* over, so that it handles no further request or datagram, and its sockets,
\* sink sessions and RTP tasks are gone.
C4_ClosedAfterTeardown ==
    (last_req.req.method = "TEARDOWN" /\ last_res.sent) =>
      /\ Ended
      /\ ~udp_open
      /\ \A i \in DOMAIN sink_sessions : ~sink_sessions[i].open
      /\ \A t \in DOMAIN rtp_tasks : rtp_tasks[t].pc = "panicked"

\* C5: an RTP packet whose payload type differs from the StreamInfo's
\* rtp_type is dropped: the step that handles it writes nothing to the sink
\* and leaves the session, its StreamInfo, its sockets and its tasks as
\* they were.
C5_MismatchedTypeDropped ==
    [][LET packet == last_dgram'.packet
           info == IF impl = "RtspSession" THEN stream_info
                   ELSE Some(rtp_tasks[last_dgram'.by].info)
       IN  (/\ n_datagrams' = n_datagrams + 1
            /\ last_dgram'.socket = "rtp"
            /\ last_dgram'.kind = "packet"
            /\ info.kind = "Some"
            /\ ~TypeMatches(info.v, packet))
           => /\ sink_sessions' = sink_sessions
              /\ status' = status
              /\ stream_info' = stream_info
              /\ udp_open' = udp_open
              /\ rtp_tasks' = rtp_tasks]_vars

\* C6: a decode or sink-write error on an RTP packet of the stream's type
\* costs that packet only: whoever handled it (the session's loop, or the
\* RTP task) is still running afterwards, with its StreamInfo and its sink
\* session open.
C6_PacketErrorDropsOnlyThePacket ==
    [][LET packet == last_dgram'.packet
           by == last_dgram'.by
           info == IF impl = "RtspSession" THEN stream_info
                   ELSE Some(rtp_tasks[by].info)
           sink == IF impl = "RtspSession" THEN OwnedSink(stream_info)
                   ELSE rtp_tasks[by].session
       IN  (/\ n_datagrams' = n_datagrams + 1
            /\ last_dgram'.socket = "rtp"
            /\ last_dgram'.kind = "packet"
            /\ info.kind = "Some"
            /\ TypeMatches(info.v, packet)
            /\ last_dgram'.result = "Err")
           => /\ status' = status
              /\ stream_info' = stream_info
              /\ sink_sessions'[sink].open
              /\ (impl = "RaopSession") => (rtp_tasks'[by].pc = "recv")]_vars

\* C7, as claimed: every step leaves each sink session's writes as they
\* were, except that a step handling an RTP packet of the StreamInfo's type
\* appends that packet's payload, as decrypted and decoded, to the writes of
\* the StreamInfo's sink session.
C7_OneWritePerMatchingPacket ==
    [][\A i \in DOMAIN sink_sessions :
         LET packet == last_dgram'.packet
             by == last_dgram'.by
             info == IF impl = "RtspSession" THEN stream_info
                     ELSE Some(rtp_tasks[by].info)
             sink == IF impl = "RtspSession" THEN OwnedSink(stream_info)
                     ELSE rtp_tasks[by].session
             accepted == /\ n_datagrams' = n_datagrams + 1
                         /\ last_dgram'.socket = "rtp"
                         /\ last_dgram'.kind = "packet"
                         /\ info.kind = "Some"
                         /\ TypeMatches(info.v, packet)
                         /\ i = sink
         IN  sink_sessions'[i].writes =
               IF accepted
                 THEN Append(sink_sessions[i].writes,
                             Decoded(info.v, packet.payload))
                 ELSE sink_sessions[i].writes]_vars

\* C7, amended: the writes a sink session sees are the payloads of the RTP
\* packets of the StreamInfo's type that decode, in the order they were
\* read from the socket: a step handling such a packet appends its decoded
\* payload, and no other step changes the writes.
C7_OneWritePerDecodedPacket ==
    [][\A i \in DOMAIN sink_sessions :
         LET packet == last_dgram'.packet
             by == last_dgram'.by
             info == IF impl = "RtspSession" THEN stream_info
                     ELSE Some(rtp_tasks[by].info)
             sink == IF impl = "RtspSession" THEN OwnedSink(stream_info)
                     ELSE rtp_tasks[by].session
             accepted == /\ n_datagrams' = n_datagrams + 1
                         /\ last_dgram'.socket = "rtp"
                         /\ last_dgram'.kind = "packet"
                         /\ info.kind = "Some"
                         /\ TypeMatches(info.v, packet)
                         /\ DecodeOk(info.v.decoder, packet.payload)
                         /\ i = sink
         IN  sink_sessions'[i].writes =
               IF accepted
                 THEN Append(sink_sessions[i].writes,
                             Decoded(info.v, packet.payload))
                 ELSE sink_sessions[i].writes]_vars

\* C7, witness: a sink session has seen two different payloads
C7_TwoWritesInOrder ==
    \E i \in DOMAIN sink_sessions :
        /\ Len(sink_sessions[i].writes) = 2
        /\ sink_sessions[i].writes[1].bytes = "a"
        /\ sink_sessions[i].writes[2].bytes = "b"

\* C8: requests are handled in arrival order and each is answered before
\* the next is read: the request handled last is the n_read-th frame of the
\* stream, a response sent is the tcp_out-th on the stream and answers the
\* frame of the same number (whose CSeq it carries), and a running session
\* has answered every frame it has read.
C8_ResponsesInArrivalOrder ==
    /\ (last_req.n # 0) => (last_req.n = n_read)
    /\ last_res.sent =>
         /\ last_res.n = tcp_out
         /\ last_res.n = last_req.n
         /\ Has(last_res.res.headers, "CSeq") =>
              (last_res.res.headers["CSeq"] = ToString(tcp_out))
    /\ Running => (tcp_out = n_read)

\* C8, witness: the second response on the stream answers the second frame
\* and carries its CSeq
C8_SecondResponseSent ==
    /\ last_res.sent
    /\ tcp_out = 2
    /\ last_req.n = 2
    /\ Has(last_res.res.headers, "CSeq")

\* C9: when the stream yields EOF the loop returns Ok, and with it go the
\* session's sockets, its sink sessions and its RTP tasks, so that no
\* datagram is handled afterwards.
C9_EofEndsGracefully ==
    (last_req.req.method = EofRequest.method) =>
      /\ status = "returned_ok"
      /\ ~udp_open
      /\ \A i \in DOMAIN sink_sessions : ~sink_sessions[i].open
      /\ \A t \in DOMAIN rtp_tasks : rtp_tasks[t].pc = "panicked"

\* C10: the listener hands out ids in accept order from 1: the i-th handler
\* spawned has id i, so ids increase strictly and no two handlers share one.
C10_IdsCountFromOne ==
    /\ \A i \in DOMAIN spawned : spawned[i].id = i
    /\ \A i, j \in DOMAIN spawned :
         (i < j) => (spawned[i].id < spawned[j].id)

\* C10, witness: three connections have been accepted
C10_ThreeAccepted ==
    /\ Len(spawned) >= 3
    /\ spawned[3].id = 3

\* C11: an error from accept does not stop the listener: once the incoming
\* stream has yielded an error (more items taken than handlers spawned),
\* serve is still running and goes on accepting.
C11_AcceptErrorKeepsListening ==
    (n_accepts > Len(spawned)) => (listener = "running")

\* C12: the end of one session, however it ends, leaves everything else as
\* it was: the listener and its id counter, the mDNS responder, and every
\* other handler's task and StreamInfo.
C12_SessionFailureIsIsolated ==
    [][\A i \in DOMAIN spawned :
         (spawned[i].status = "running" /\ spawned'[i].status # "running")
         => /\ listener' = listener
            /\ next_id' = next_id
            /\ mdns' = mdns
            /\ \A j \in DOMAIN spawned \ {i} : spawned'[j] = spawned[j]]_vars

\* C12, witness: a handler has panicked and one spawned after it runs on
\* with its StreamInfo, the listener and the mDNS responder running
C12_OthersRunOn ==
    \E i, j \in DOMAIN spawned :
        /\ i < j
        /\ spawned[i].status = "panicked"
        /\ spawned[j].status = "running"
        /\ spawned[j].stream_info.kind = "Some"
        /\ listener = "running"
        /\ mdns = "running"

C14_CipherIffBothAttributes ==
    /\ (/\ last_req.req.method = "ANNOUNCE"
        /\ last_res.sent
        /\ last_res.res.status = StatusOk)
       => /\ stream_info.kind = "Some"
          /\ (stream_info.v.cipher.kind = "Some") <=>
               (/\ last_req.req.sdp.rsaaeskey # NoHeader
                /\ last_req.req.sdp.aesiv # NoHeader)
    /\ (/\ last_req.req.method = "ANNOUNCE"
        /\ last_res.sent
        /\ AnnounceDecoder(last_req.req.sdp).kind = "Decoder"
        /\ (last_req.req.sdp.rsaaeskey = NoHeader) #
             (last_req.req.sdp.aesiv = NoHeader))
       => last_res.res.status = StatusOk
    /\ (impl = "RtspSession" /\ stream_info.kind = "Some")
       => \A k \in DOMAIN sink_sessions[stream_info.v.session].writes :
            sink_sessions[stream_info.v.session].writes[k].aes =
              IF stream_info.v.cipher.kind = "Some"
                THEN stream_info.v.cipher.v.key ELSE NoHeader
    /\ \A t \in DOMAIN rtp_tasks :
         (rtp_tasks[t].session # 0)
         => \A k \in DOMAIN sink_sessions[rtp_tasks[t].session].writes :
              sink_sessions[rtp_tasks[t].session].writes[k].aes =
                IF rtp_tasks[t].info.cipher.kind = "Some"
                  THEN rtp_tasks[t].info.cipher.v.key ELSE NoHeader

\* C14, witness: an ANNOUNCE whose SDP has an aesiv and no rsaaeskey has
\* just been answered 200
C14_AnnouncedWithOneAttribute ==
    /\ last_req.req.method = "ANNOUNCE"
    /\ last_res.sent
    /\ last_res.res.status = StatusOk
    /\ last_req.req.sdp.rsaaeskey = NoHeader
    /\ last_req.req.sdp.aesiv # NoHeader
    /\ stream_info.kind = "Some"
    /\ stream_info.v.cipher = None

\* C15: an ANNOUNCE whose body fails SDP processing (it does not parse, has
\* not exactly one media description, no rtpmap for payload type 96,
\* unusable codec parameters, or a key or IV that cannot be decoded or
\* unwrapped) does not crash the session; it is answered 400 and the
\* session goes on.
C15_SdpFailureIs400 ==
    LET sdp == last_req.req.sdp
        failed == \/ ~sdp.parse
                  \/ sdp.medias # 1
                  \/ sdp.codec = NoHeader
                  \/ ~sdp.params_ok
                  \/ /\ sdp.rsaaeskey # NoHeader
                     /\ sdp.aesiv # NoHeader
                     /\ \/ sdp.rsaaeskey \in {"badb64", "badrsa"}
                        \/ sdp.aesiv \in {"badb64", "badlen"}
    IN  (last_req.req.method = "ANNOUNCE" /\ failed)
        => /\ status # "panicked"
           /\ last_res.sent =>
                (last_res.res.status = StatusBadRequest /\ Running)

\* C16: a successful ANNOUNCE replaces the StreamInfo for every RTP packet
\* handled after it: whoever handles an RTP packet (the session's loop, or
\* an RTP task) does so with the StreamInfo of the latest successful
\* ANNOUNCE of the session, and so with its rtp_type, cipher, decoder and
\* sink session.
C16_RtpUsesTheLatestAnnounce ==
    [][LET by == last_dgram'.by
           info == IF impl = "RtspSession" THEN stream_info
                   ELSE Some(rtp_tasks[by].info)
       IN  (/\ n_datagrams' = n_datagrams + 1
            /\ last_dgram'.socket = "rtp"
            /\ last_dgram'.kind = "packet"
            /\ info.kind = "Some")
           => (info.v.announce = n_announced)]_vars

\* C17: in every session state the status of the response to a method that
\* needs no stream state is fixed by the method: 200 for RECORD, PAUSE,
\* FLUSH, GET_PARAMETER and SET_PARAMETER, 200 with the Public header for
\* OPTIONS, 404 for GET and POST, and 405 for a method outside the accepted
\* list, after which the session is still running.
C17_StatusByMethodAlone ==
    last_res.sent =>
      LET method == last_req.req.method
          res == last_res.res
      IN  /\ (method \in {"RECORD", "PAUSE", "FLUSH", "GET_PARAMETER",
                          "SET_PARAMETER"})
               => (res.status = StatusOk)
          /\ (method = "OPTIONS")
               => /\ res.status = StatusOk
                  /\ Has(res.headers, "Public")
                  /\ res.headers["Public"] = PublicMethods
          /\ (method \in {"GET", "POST"}) => (res.status = StatusNotFound)
          /\ (method \notin {"ANNOUNCE", "SETUP", "RECORD", "PAUSE", "FLUSH",
                             "TEARDOWN", "OPTIONS", "GET_PARAMETER",
                             "SET_PARAMETER", "POST", "GET"})
               => /\ res.status = StatusMethodNotAllowed
                  /\ Running

\* C17, witness: the third request, sent after an ANNOUNCE and a SETUP that
\* started an RTP task, has an unknown method and is answered
C17_UnknownMethodAfterSetup ==
    /\ last_req.n = 3
    /\ last_req.req.method = "DESCRIBE"
    /\ last_res.sent
    /\ announced
    /\ rtp_tasks # <<>>

\* C18: SETUP treats the client's Transport header as informational: after
\* a successful ANNOUNCE, a SETUP carrying a Transport header of any content
\* does not bring the session down, and unless the handler fails for
\* another reason (a socket that cannot be bound) it is answered 200 with
\* the server's Transport and Session headers.
C18_AnyTransportIsAccepted ==
    (/\ last_req.req.method = "SETUP"
     /\ last_req.req.transport.kind = "Some"
     /\ ~last_req.new)
    => /\ status # "panicked"
       /\ (last_res.sent /\ ~last_res.raised)
            => /\ last_res.res.status = StatusOk
               /\ Has(last_res.res.headers, "Transport")
               /\ Has(last_res.res.headers, "Session")

C20_GroupIsPtrThenSrvTxtA ==
    (mdns_msg # None /\ mdns_out.handled.kind = "Some")
    => \A k \in DOMAIN mdns_out.handled.v.groups :
         LET group == mdns_out.handled.v.groups[k]
             service == services[group.service]
             answers == group.answers
             additionals == group.additionals
             last == Len(additionals)
         IN  /\ Len(answers) = 1
             /\ answers[1].name = service.type
             /\ answers[1].data = [type |-> "PTR", name |-> service.name]
             /\ (services = MainServices) =>
                  /\ answers[1].name = <<"_raop", "_tcp", "local">>
                  /\ answers[1].data.name =
                       <<"001122334455@ras", "_raop", "_tcp", "local">>
             /\ last = IF service.txt = <<>> THEN 2 ELSE 3
             /\ additionals[1].name = service.name
             /\ additionals[1].data =
                  [type |-> "SRV", priority |-> 0, weight |-> 0,
                   port |-> service.port, target |-> Hostname]
             /\ (service.txt # <<>>) =>
                  /\ additionals[2].name = service.name
                  /\ additionals[2].data =
                       [type |-> "TXT", txt |-> service.txt]
             /\ additionals[last].name = Hostname
             /\ additionals[last].data.type = "A"
             /\ \E p \in DOMAIN Prefixes :
                  additionals[last].data.ip = Prefixes[p].ip

\* C20, witness: one datagram has made a group for a service with TXT
\* strings and a group for a service without
C20_GroupsWithAndWithoutTxt ==
    /\ mdns_msg # None
    /\ mdns_out.handled.kind = "Some"
    /\ \E k, l \in DOMAIN mdns_out.handled.v.groups :
         /\ services[mdns_out.handled.v.groups[k].service].txt # <<>>
         /\ services[mdns_out.handled.v.groups[l].service].txt = <<>>

\* C21: the address in the A record of every mDNS response is the address
\* of the first interface, in enumeration order, whose CIDR contains the
\* sender's address; no response carries the address of an interface whose
\* subnet does not contain the sender.
C21_AddressOfFirstMatchingInterface ==
    (mdns_msg # None /\ mdns_out.handled.kind = "Some")
    => LET origin == mdns_msg.v.origin_address
           Checked(response) ==
               (response.kind = "Some") =>
                 \A k \in DOMAIN response.v.additionals :
                   LET record == response.v.additionals[k] IN
                     (record.data.type = "A") =>
                       \E p \in DOMAIN Prefixes :
                         /\ origin \in Prefixes[p].cidr
                         /\ \A o \in 1..(p - 1) : origin \notin Prefixes[o].cidr
                         /\ record.data.ip = Prefixes[p].ip
       IN  /\ Checked(mdns_out.handled.v.unicast)
           /\ Checked(mdns_out.handled.v.multicast)

\* C22: when the sender's address lies in the CIDR of no local interface,
\* the responder sends nothing in reply to the datagram, neither a unicast
\* nor a multicast packet, and is still running to serve the next one.
C22_NoInterfaceNoReply ==
    (/\ mdns_msg # None
     /\ \A p \in DOMAIN Prefixes :
          mdns_msg.v.origin_address \notin Prefixes[p].cidr)
    => /\ mdns_out.sent = <<>>
       /\ mdns_out.unicast = None
       /\ mdns_out.multicast = None
       /\ mdns = "running"

\* C22, witness: a query with a matching PTR question from a sender on no
\* interface's subnet has been handled
C22_MatchingQuestionFromElsewhere ==
    /\ mdns_msg # None
    /\ mdns_msg.v.parses
    /\ ~mdns_msg.v.response
    /\ \A p \in DOMAIN Prefixes :
         mdns_msg.v.origin_address \notin Prefixes[p].cidr
    /\ \E i \in DOMAIN mdns_msg.v.questions, j \in DOMAIN services :
         /\ mdns_msg.v.questions[i].type = 12
         /\ mdns_msg.v.questions[i].name = services[j].type
    /\ mdns_out.sent = <<>>

C24_EventsNeverInterleave ==
    (sel # None)
    => LET rtspInHand == sel.pc \in {"handle", "send"}
           rtpInHand == \/ sel.pc \in {"rtp_checked", "rtp_decoded"}
                        \/ sel.task_pc \in {"checked", "decoded"}
       IN  /\ ~(rtspInHand /\ rtpInHand)
           /\ \A i, j \in DOMAIN sel.use : sel.use[i] = sel.use[j]
           /\ \A i \in DOMAIN sel.use : sel.use[i] \in 1..sel.announces

(***************************************************************************)
(* C25: the RTSP decoder consumes bytes only when a complete frame is      *)
(* buffered. A call that returns incomplete leaves the buffer as it was; a *)
(* call that yields a request takes exactly the bytes of that request, the *)
(* header section and Content-Length bytes of body, and leaves the bytes   *)
(* after it. A stream of well-formed requests, delivered in any chunks,    *)
(* therefore yields those requests in order with their bodies byte for     *)
(* byte, and nothing else.                                                 *)
(***************************************************************************)
WellFormedStream ==
    \A k \in DOMAIN framed.frames : framed.frames[k] \in WellFormedFrames

C25_OnlyCompleteFramesAreConsumed ==
    framed # None =>
      /\ framed.last.kind = "None" =>
            /\ framed.last.after = framed.last.before
            /\ \/ Position(framed.last.before, CRLF \o CRLF) = 0
               \/ Len(framed.out) < Len(framed.frames)
                  /\ Len(framed.last.before)
                       < Len(WireOf(framed.frames[Len(framed.out) + 1]))
      /\ framed.last.kind = "Some" =>
            /\ Len(framed.out) <= Len(framed.frames)
            /\ framed.last.before
                 = WireOf(framed.frames[Len(framed.out)]) \o framed.last.after
      /\ WellFormedStream =>
            /\ framed.status = "open"
            /\ Len(framed.out) <= Len(framed.frames)
            /\ \A k \in DOMAIN framed.out :
                 /\ framed.out[k].method = <<framed.frames[k].line[1]>>
                 /\ framed.out[k].content = framed.frames[k].body
            /\ (framed.read = Len(framed.wire) /\ ~framed.readable) =>
                 /\ Len(framed.out) = Len(framed.frames)
                 /\ framed.buf = <<>>

\* Two requests with bodies, the second body a blank line, both yielded
C25_TwoRequestsWithBodiesYielded ==
    /\ framed # None
    /\ Len(framed.frames) = 2
    /\ Len(framed.out) = 2
    /\ framed.out[1].content = <<"x", "y">>
    /\ framed.out[2].content = CRLF \o CRLF
    /\ framed.buf = <<>>

(***************************************************************************)
(* C26: a complete header section with a malformed line, a header line     *)
(* without ':' or a request line with fewer than three tokens, makes the   *)
(* decoder return an error value and yields no request; the decoder never  *)
(* panics on it.                                                           *)
(***************************************************************************)
MalformedLine(frame) ==
    \/ Len(Split(frame.line, <<" ">>)) < 3
    \/ \E k \in DOMAIN frame.headers : Position(frame.headers[k], <<":">>) = 0

C26_MalformedLineIsAnErrorValue ==
    framed # None =>
      /\ framed.status # "panicked"
      /\ \A k \in DOMAIN framed.out : ~MalformedLine(framed.frames[k])
      /\ ( /\ framed.last.kind \in {"Err", "Panic"}
           /\ MalformedLine(framed.frames[Len(framed.out) + 1]) )
            => framed.last.kind = "Err"

(***************************************************************************)
(* C27: a header line is split on its first ':' only. The key is the       *)
(* trimmed text before it and the value the trimmed rest of the line, so a *)
(* value that contains ':' is returned whole.                              *)
(***************************************************************************)
KeyOfLine(line) == Trim(SubSeq(line, 1, Position(line, <<":">>) - 1))
RemainderOfLine(line) ==
    Trim(SubSeq(line, Position(line, <<":">>) + 1, Len(line)))

C27_ValueIsTheWholeRemainder ==
    framed # None =>
      \A k \in DOMAIN framed.out :
        \A h \in DOMAIN framed.frames[k].headers :
          LET line == framed.frames[k].headers[h] IN
            /\ KeyOfLine(line) \in DOMAIN framed.out[k].headers
            /\ framed.out[k].headers[KeyOfLine(line)] = RemainderOfLine(line)

(***************************************************************************)
(* C28: the RTP decoder returns incomplete, no packet and no error, for a  *)
(* datagram shorter than the fixed header; of a longer one it rejects a    *)
(* version other than 2 with an error; with version 2 it returns           *)
(* incomplete when the headers are truncated or the padding length is      *)
(* invalid, and otherwise yields the datagram's payload type and payload   *)
(* bytes, with payload_offset + payload.len() = datagram.len() - padding.  *)
(***************************************************************************)
C28_RtpDecodeOutcome ==
    Returned("RtpCodec::decode") =>
      LET f == call.fields
          n == Len(call.input)
          out == call.output
      IN  /\ n < MinHeaderLen => out.kind = "None"
          /\ (n >= MinHeaderLen /\ f.version # 2) => out.kind = "Err"
          /\ (n >= MinHeaderLen /\ f.version = 2 /\ n < RtpHeaderLen(f))
               => out.kind = "None"
          /\ (n = Len(RtpWire(f)) /\ f.version = 2 /\ ~ValidPadding(f))
               => out.kind = "None"
          /\ (n = Len(RtpWire(f)) /\ f.version = 2 /\ ValidPadding(f)) =>
               /\ out.kind = "Some"
               /\ out.item.payload_type = f.pt
               /\ out.item.payload = f.payload
               /\ payload_offset(call.input) + Len(out.item.payload)
                    = n - Len(f.padding)
          /\ out.kind = "Some" =>
               /\ out.item.payload_type = f.pt
               /\ payload_offset(call.input) + Len(out.item.payload)
                    = n - (IF padding_flag(call.input)
                             THEN padding_length(call.input) ELSE 0)

\* A whole datagram with the marker bit, a CSRC, an extension and padding
C28_PaddedPacketDecoded ==
    /\ Returned("RtpCodec::decode")
    /\ call.output.kind = "Some"
    /\ call.fields.marker = 1
    /\ call.fields.csrc # <<>>
    /\ Len(call.fields.extension) = 8
    /\ call.fields.padding = <<0, 2>>
    /\ call.output.item.payload = <<17, 0, 200>>

(***************************************************************************)
(* C29: decryption is reset per packet. Decrypting a packet leaves the     *)
(* session's stored cipher as RsaAesCipher::new made it, so the plaintext  *)
(* of a packet depends on the key, the IV and that packet's bytes alone,   *)
(* whichever packets were decrypted before it. The output is as long as    *)
(* the input, and the len mod 16 bytes after the last whole block are      *)
(* passed through unchanged.                                               *)
(***************************************************************************)
C29_DecryptIsResetPerPacket ==
    (call # None /\ call.fn = "RsaAesCipher::decrypt") =>
      /\ call.output.cipher
           = RsaAesCipherNew(call.fields.key, call.fields.iv)
      /\ \A k \in DOMAIN call.output.outs :
           LET raw == call.input[k]
               out == call.output.outs[k]
               whole == Len(raw) - (Len(raw) % BlockSize)
           IN  /\ out = call.fields.plain[k]
               /\ Len(out) = Len(raw)
               /\ SubSeq(out, whole + 1, Len(out))
                    = SubSeq(raw, whole + 1, Len(raw))

\* Two packets of whole blocks and a tail, the second after the first
C29_SecondPacketAfterTheFirst ==
    /\ Returned("RsaAesCipher::decrypt")
    /\ Len(call.input[1]) = 2 * BlockSize + 3
    /\ Len(call.input[2]) = BlockSize + 3
    /\ call.input[2] # call.fields.plain[2]
    /\ call.output.outs[2] = BlockB \o <<7, 8, 9>>

(***************************************************************************)
(* C30: the bytes Packet::write produces parse back, with Packet::parse,   *)
(* to the same id, the same four section counts, the same question names   *)
(* and the same answer names and types; and a packet parsed from           *)
(* uncompressed bytes is written back as the bytes it was parsed from.     *)
(***************************************************************************)
NamesOf(items) == [k \in DOMAIN items |-> items[k].name]
TypesOf(records) == [k \in DOMAIN records |-> records[k].data.type]

C30_WriteParseRoundTrip ==
    /\ Returned("Packet::write") =>
         /\ call.output.written.kind = "Ok"
         /\ call.output.parsed.kind = "Ok"
         /\ LET packet == call.input
                packet2 == call.output.parsed.value
            IN  /\ packet2.header.id = packet.header.id
                /\ packet2.header.qd_count = packet.header.qd_count
                /\ packet2.header.an_count = packet.header.an_count
                /\ packet2.header.ns_count = packet.header.ns_count
                /\ packet2.header.ar_count = packet.header.ar_count
                /\ NamesOf(packet2.questions) = NamesOf(packet.questions)
                /\ NamesOf(packet2.answers) = NamesOf(packet.answers)
                /\ TypesOf(packet2.answers) = TypesOf(packet.answers)
                /\ NamesOf(packet2.additionals) = NamesOf(packet.additionals)
                /\ TypesOf(packet2.additionals) = TypesOf(packet.additionals)
    /\ Returned("Packet::parse") =>
         /\ call.output.parsed.kind = "Ok"
         /\ call.output.written.kind = "Ok"
         /\ call.output.written.bytes = call.input

(***************************************************************************)
(* C31: a name that ends in a compression pointer parses to the same       *)
(* labels as the name with those labels written out, and after the pointer *)
(* the enclosing question goes on right after the two pointer bytes: its   *)
(* type and class are the ones sent and the parse ends at the end of the   *)
(* packet.                                                                 *)
(***************************************************************************)
C31_PointerParsesAsExpansion ==
    (Returned("Name::parse") /\ call.fields.kind \in {"back", "forward"}) =>
      LET compressed == call.output.compressed
          expanded == call.output.expanded
      IN  /\ compressed.kind = "Ok"
          /\ expanded.kind = "Ok"
          /\ NamesOf(compressed.value.questions) = call.fields.names
          /\ compressed.value.questions = expanded.value.questions
          /\ \A k \in 1..2 :
               /\ compressed.value.questions[k].type
                    = ResourceTypeParse(call.fields.types[k])
               /\ compressed.value.questions[k].unicast
                    = (call.fields.class >= 32768)
          /\ compressed.cursor = Len(call.input.bytes)
          /\ expanded.cursor = Len(call.input.expanded)

\* A name of one label of its own and a pointer into the middle of the
\* first name, parsed
C31_PrefixThenPointerIntoAName ==
    /\ Returned("Name::parse")
    /\ call.fields.kind = "back"
    /\ call.output.compressed.kind = "Ok"
    /\ Len(call.input.bytes) < Len(call.input.expanded)
    /\ call.output.compressed.value.questions[2].name
         = <<LabelService, LabelTcp, LabelLocal>>

(***************************************************************************)
(* C32: Name::parse terminates on every packet, also on pointers that      *)
(* point at themselves, at each other in a cycle, or forward: it returns a *)
(* name or an error after finitely many steps.                             *)
(***************************************************************************)
C32_NameParseTerminates ==
    Returned("Name::parse") => call.output.compressed.kind # "Overflow"

(***************************************************************************)
(* C33: the responder keeps serving after any datagram. A datagram that is *)
(* truncated or malformed makes Packet::parse return an error; it is       *)
(* ignored and the receive loop goes on to the next datagram.              *)
(***************************************************************************)
C33_MalformedDatagramIsAnError ==
    Returned("Server::serve") =>
      /\ call.output.parsed.kind = "Err"
      /\ call.output.task = "running"

(***************************************************************************)
(* C34: the responder replies only to queries. A received packet whose     *)
(* header has the response flag set causes no packet to be sent, whatever  *)
(* its questions.                                                          *)
(***************************************************************************)
C34_ResponsesAreNotAnswered ==
    (mdns_msg # None /\ mdns_msg.v.parses /\ mdns_msg.v.response) =>
      /\ mdns_out.handled = None
      /\ mdns_out.sent = <<>>
      /\ mdns_out.unicast = None
      /\ mdns_out.multicast = None

\* A response that asks, from an address on an interface's subnet, for a
\* service the responder has: nothing is sent
C34_ResponseWithAMatchingQuestion ==
    /\ mdns_msg # None
    /\ mdns_msg.v.parses
    /\ mdns_msg.v.response
    /\ \E p \in DOMAIN Prefixes :
         mdns_msg.v.origin_address \in Prefixes[p].cidr
    /\ \E q \in DOMAIN mdns_msg.v.questions, s \in DOMAIN services :
         /\ mdns_msg.v.questions[q].type = 12
         /\ mdns_msg.v.questions[q].name = services[s].type
    /\ mdns_out.sent = <<>>

(***************************************************************************)
(* C35: every packet the responder sends has the response flag set and    *)
(* the id of the query it answers, no questions and no authority records,  *)
(* and header counts equal to the records it carries: one PTR answer for   *)
(* every (question, service) match routed to that packet, and those        *)
(* matches' additionals.                                                   *)
(***************************************************************************)
C35_SentPacketHeader ==
    (mdns_msg # None) =>
      \A s \in DOMAIN mdns_out.sent :
        LET packet == mdns_out.sent[s].packet
            groups == mdns_out.handled.v.groups
            routed == {k \in DOMAIN groups :
                         (mdns_msg.v.questions[groups[k].question].class
                            >= 32768)
                           <=> (mdns_out.sent[s].kind = "unicast")}
            RECURSIVE Sum(_)
            Sum(ks) == IF ks = {} THEN 0
                       ELSE LET k == CHOOSE x \in ks : TRUE
                            IN  Len(groups[k].additionals) + Sum(ks \ {k})
        IN  /\ packet.header.response
            /\ packet.header.id = mdns_msg.v.id
            /\ packet.questions = <<>>
            /\ packet.nameservers = <<>>
            /\ packet.header.qd_count = 0
            /\ packet.header.ns_count = 0
            /\ packet.header.an_count = Len(packet.answers)
            /\ packet.header.ar_count = Len(packet.additionals)
            /\ Len(packet.answers) = Cardinality(routed)
            /\ \A a \in DOMAIN packet.answers :
                 packet.answers[a].data.type = "PTR"
            /\ Len(packet.additionals) = Sum(routed)

\* A query with id 1573 answered by a multicast packet for two services
C35_TwoMatchesInOnePacket ==
    /\ mdns_msg # None
    /\ mdns_msg.v.id = 1573
    /\ \E s \in DOMAIN mdns_out.sent :
         /\ mdns_out.sent[s].kind = "multicast"
         /\ mdns_out.sent[s].packet.header.an_count = 2
         /\ mdns_out.sent[s].packet.header.ar_count > 4

(***************************************************************************)
(* C36: an ANNOUNCE answered 400 leaves the StreamInfo as it was (absent,  *)
(* or that of the last successful ANNOUNCE) and opens no sink session: the *)
(* step changes neither the sink sessions, nor the RTP tasks, nor the      *)
(* sockets, so the packets of a stream that is playing are decoded and     *)
(* written as before.                                                      *)
(***************************************************************************)
C36_RejectedAnnounceChangesNothing ==
    [][(/\ n_read' = n_read + 1
        /\ last_req'.req.method = "ANNOUNCE"
        /\ last_res'.sent
        /\ last_res'.res.status = StatusBadRequest)
       => /\ stream_info' = stream_info
          /\ sink_sessions' = sink_sessions
          /\ rtp_tasks' = rtp_tasks
          /\ ports' = ports
          /\ udp_open' = udp_open
          /\ n_announced' = n_announced]_vars

\* An RtspSession whose stream has had a packet written answers its second
\* ANNOUNCE 400 and still holds the StreamInfo and the open sink session
C36_RejectedAnnounceWhilePlaying ==
    /\ impl = "RtspSession"
    /\ last_req.n = 2
    /\ last_req.req.method = "ANNOUNCE"
    /\ last_res.sent
    /\ last_res.res.status = StatusBadRequest
    /\ stream_info.kind = "Some"
    /\ sink_sessions[OwnedSink(stream_info)].open
    /\ Len(sink_sessions[OwnedSink(stream_info)].writes) = 1

(***************************************************************************)
(* C37: after any sequence of requests the session holds at most one open  *)
(* sink session: the one opened for the StreamInfo of its last successful  *)
(* ANNOUNCE, with the format that ANNOUNCE's decoder reports. The sink     *)
(* sessions of earlier ANNOUNCEs are released and never written again.     *)
(***************************************************************************)
C37_OneSinkSessionOfTheLastAnnounce ==
    [][LET open == {i \in DOMAIN sink_sessions' : sink_sessions'[i].open}
           OfLastAnnounce(i, info) ==
               /\ info.announce = n_announced'
               /\ sink_sessions'[i].format = info.decoder.format
       IN  /\ Cardinality(open) <= 1
           /\ \A i \in open :
                IF impl = "RtspSession"
                  THEN /\ stream_info'.kind = "Some"
                       /\ stream_info'.v.session = i
                       /\ OfLastAnnounce(i, stream_info'.v)
                  ELSE \E t \in DOMAIN rtp_tasks' :
                         /\ rtp_tasks'[t].session = i
                         /\ OfLastAnnounce(i, rtp_tasks'[t].info)
           /\ \A i \in DOMAIN sink_sessions :
                ~sink_sessions[i].open =>
                  (sink_sessions'[i] = sink_sessions[i])]_vars

(***************************************************************************)
(* C38: an RTP datagram that reaches the RTP port of an RtspSession while  *)
(* no StreamInfo is set is discarded: the step writes to no sink session   *)
(* and does not end the session, whose sockets stay open and which goes on *)
(* reading RTSP requests.                                                  *)
(***************************************************************************)
C38_RtpBeforeAnnounceIsDiscarded ==
    [][(/\ impl = "RtspSession"
        /\ Running
        /\ stream_info = None
        /\ n_datagrams' = n_datagrams + 1
        /\ last_dgram'.socket = "rtp"
        /\ last_dgram'.kind = "packet")
       => /\ sink_sessions' = sink_sessions
          /\ status' = status
          /\ udp_open' = udp_open
          /\ stream_info' = stream_info]_vars

(***************************************************************************)
(* C39: only ANNOUNCE changes the stream state. A step that handles and    *)
(* answers SETUP, RECORD, PAUSE, FLUSH, OPTIONS, GET_PARAMETER,            *)
(* SET_PARAMETER, GET, POST or an unknown method leaves the StreamInfo,    *)
(* the sink sessions, the bound ports and the tasks reading RTP as they    *)
(* were, so RTP packets are processed after it as before it.               *)
(***************************************************************************)
C39_OnlyAnnounceChangesTheStream ==
    [][(/\ n_read' = n_read + 1
        /\ last_req'.req.method \in Methods \ {"ANNOUNCE", "TEARDOWN"}
        /\ last_res'.sent)
       => /\ stream_info' = stream_info
          /\ sink_sessions' = sink_sessions
          /\ ports' = ports
          /\ n_bound' = n_bound
          /\ udp_open' = udp_open
          /\ rtp_tasks' = rtp_tasks]_vars

(***************************************************************************)
(* The session under a fair scheduler. futures::select! polls every branch *)
(* of the loop and takes one of the ready ones pseudo-randomly, so a       *)
(* branch that stays ready is taken in the end; the runtime likewise runs  *)
(* every spawned task. Datagrams arrive as the network pleases: no         *)
(* fairness is asked of them.                                              *)
(***************************************************************************)
RtspBranch == RtspRequest \/ RtspBadFrame \/ RtspEof
SpecFair ==
    /\ Spec
    /\ WF_vars(Start)
    /\ WF_vars(RtspBranch)
    /\ WF_vars(\E t \in DOMAIN rtp_tasks : RtpTaskStart(t))

(***************************************************************************)
(* C40: under fair scheduling every complete RTSP request that arrives at  *)
(* a running RtspSession is eventually answered, whatever datagrams arrive *)
(* meanwhile. The session is excused when it has ended for a reason the    *)
(* RTSP side gives: a frame that does not decode, a handler that panics,   *)
(* a response that cannot be written.                                      *)
(***************************************************************************)
C40_RequestsAreEventuallyAnswered ==
    \A k \in 1..MaxRequests :
        (impl = "RtspSession" /\ Running /\ n_arrived >= k)
          ~> (\/ tcp_out >= k
              \/ Ended /\ last_dgram.result # "Err")
=============================================================================
